---- MODULE Spec2Model ----
(***************************************************************************)
(* A model of the three-address-code interpreter (vm.py, instruction.py,   *)
(* stack_frame.py): the Loader (VM.load_program), the scope resolver, the  *)
(* heap allocator, the function-call protocol and VM.step.                 *)
(*                                                                         *)
(* Python values are tagged records; every record has a field t:           *)
(*   int    [t |-> "int",   i |-> 5]                                       *)
(*   bool   [t |-> "bool",  b |-> TRUE]                                    *)
(*   str    [t |-> "str",   s |-> "x"]      (variable names are str too)   *)
(*   float  [t |-> "float", n |-> 5, d |-> 2]  (a reduced fraction, d > 0) *)
(*   None   [t |-> "none"]                                                 *)
(*   tuple  [t |-> "tuple", e |-> <<v1, v2>>]  (pointers are 2-tuples)     *)
(*   list   [t |-> "list", e |-> <<v1, v2>>]   (built by json.load only)   *)
(* A raised exception travels as [t |-> "exc", msg |-> "..."].             *)
(* A dict is a function whose DOMAIN is its key set.                       *)
(***************************************************************************)
EXTENDS Integers, Sequences, FiniteSets, TLC

-----------------------------------------------------------------------------
(* Bounds of the model and constants of the program *)

\* Longest generated source text, in lines (the Loader family).
MaxLines == 3

\* Largest block size the generated heap programs ask ALLOC_HEAP for, beyond
\* the whole initial heap.
MaxAlloc == 2

\* A state file is imported only while fewer parameters than this are
\* pending: import keeps the buffer, so importing again and again before a
\* PARAM would let it grow without end.
MaxPending == 1

\* len(self.heap) after reset_state: [None] * 100
HeapInit == 100

\* self.heap.extend([None] * 50)
HeapGrow == 50

-----------------------------------------------------------------------------
(* The value model *)

IntV(i) == [t |-> "int", i |-> i]

BoolV(b) == [t |-> "bool", b |-> b]

StrV(s) == [t |-> "str", s |-> s]

NoneV == [t |-> "none"]

TupV(e) == [t |-> "tuple", e |-> e]

ListV(e) == [t |-> "list", e |-> e]

Raise(msg) == [t |-> "exc", msg |-> msg]

IsExc(v) == v.t = "exc"

Abs(i) == IF i < 0 THEN -i ELSE i

RECURSIVE Gcd(_, _)
Gcd(a, b) == IF b = 0 THEN a ELSE Gcd(b, a % b)

\* a float as the reduced fraction n/d with d > 0
FloatV(n, d) ==
    LET sn == IF d < 0 THEN -n ELSE n
        sd == Abs(d)
        g  == Gcd(Abs(sn), sd)
    IN  [t |-> "float", n |-> sn \div g, d |-> sd \div g]

\* floor division, as Python's // on integers (b # 0)
FloorDiv(a, b) ==
    LET q == Abs(a) \div Abs(b)
    IN  IF (a < 0) = (b < 0) THEN q
        ELSE IF q * Abs(b) = Abs(a) THEN -q ELSE -(q + 1)

\* isinstance(v, int): bool is a subclass of int
IsInt(v) == v.t \in {"int", "bool"}

IsStr(v) == v.t = "str"

IsTuple(v) == v.t = "tuple"

IsList(v) == v.t = "list"

IsNum(v) == v.t \in {"int", "bool", "float"}

\* the integer an int or bool stands for
IntVal(v) == IF v.t = "bool" THEN (IF v.b THEN 1 ELSE 0) ELSE v.i

\* numerator and denominator of a number
NumN(v) == IF v.t = "float" THEN v.n ELSE IntVal(v)

NumD(v) == IF v.t = "float" THEN v.d ELSE 1

\* bool(v)
Truthy(v) ==
    CASE v.t = "int"   -> v.i # 0
      [] v.t = "bool"  -> v.b
      [] v.t = "float" -> v.n # 0
      [] v.t = "str"   -> v.s # ""
      [] v.t = "tuple" -> v.e # <<>>
      [] v.t = "list"  -> v.e # <<>>
      [] OTHER         -> FALSE

\* v1 == v2
PyEq(v1, v2) ==
    IF IsNum(v1) /\ IsNum(v2) THEN NumN(v1) * NumD(v2) = NumN(v2) * NumD(v1)
    ELSE v1 = v2

\* v1 < v2 on numbers
NumLt(v1, v2) == NumN(v1) * NumD(v2) < NumN(v2) * NumD(v1)

-----------------------------------------------------------------------------
(* Dicts and lists *)

EmptyDict == <<>>

\* d[k] = v
DictSet(d, k, v) == [x \in (DOMAIN d) \cup {k} |-> IF x = k THEN v ELSE d[x]]

\* d.get(k)
DictGet(d, k) == IF k \in DOMAIN d THEN d[k] ELSE NoneV

\* x in lst
InList(x, lst) == \E k \in 1..Len(lst) : lst[k] = x

Last(seq) == seq[Len(seq)]

Front(seq) == SubSeq(seq, 1, Len(seq) - 1)

\* the elements of a list
Elems(list) == { list[k] : k \in 1..Len(list) }

\* list(range(a, b))
Range(a, b) == [k \in 1..(IF b > a THEN b - a ELSE 0) |-> a + k - 1]

\* [None] * n
NoneList(n) == [k \in 1..n |-> NoneV]

-----------------------------------------------------------------------------
(* Source text.  A source line is a sequence of atoms; an atom is a string  *)
(* that the Loader never has to cut: a word (opcode, identifier), a        *)
(* numeral, or one of the single characters " ", "#", ":", ",", "\"", "@". *)
(* The text of a line is the concatenation of its atoms.  Two word atoms   *)
(* are never adjacent, and no line starts with a float numeral.            *)

\* the integers that have a numeral among the atoms
LitRange == -2 .. (HeapInit + HeapGrow + 2)

\* the numerals, and the integer each one is
Numerals == {ToString(i) : i \in LitRange}

NumeralValue == [a \in Numerals |-> CHOOSE i \in LitRange : ToString(i) = a]

\* re.match(r"^-?\d+$", a)
IsIntLit(a) == a \in Numerals

\* int(a)
IntOf(a) == NumeralValue[a]

\* re.match(r"^-?\d+\.\d*$", a), and float(a)
FloatLits == [a \in {"2.5", "0.0"} |-> IF a = "2.5" THEN FloatV(5, 2) ELSE FloatV(0, 1)]

\* characters that are not \w
Punct == {" ", "#", ":", ",", "\"", "@"}

\* the atom starts with a \w character
IsWordAtom(a) == a \notin Punct /\ a # "" /\ ~(IsIntLit(a) /\ IntOf(a) < 0)

\* str.upper() on the word atoms that are not upper case already
Upper(a) ==
    CASE a = "jump" -> "JUMP"
      [] a = "halt" -> "HALT"
      [] OTHER      -> a

\* str.lower() == 'true' / 'false'
IsTrueText(a) == a \in {"true", "True", "TRUE"}

IsFalseText(a) == a \in {"false", "False", "FALSE"}

\* "".join(atoms)
RECURSIVE Text(_)
Text(atoms) == IF atoms = <<>> THEN "" ELSE Head(atoms) \o Text(Tail(atoms))

\* str.strip()
RECURSIVE LStrip(_)
LStrip(atoms) ==
    IF atoms # <<>> /\ Head(atoms) = " " THEN LStrip(Tail(atoms)) ELSE atoms

RECURSIVE RStrip(_)
RStrip(atoms) ==
    IF atoms # <<>> /\ Last(atoms) = " " THEN RStrip(Front(atoms)) ELSE atoms

Strip(atoms) == RStrip(LStrip(atoms))

\* str.split(','): the pieces between the commas, in order
RECURSIVE SplitComma(_, _)
SplitComma(atoms, piece) ==
    IF atoms = <<>> THEN <<piece>>
    ELSE IF Head(atoms) = "," THEN <<piece>> \o SplitComma(Tail(atoms), <<>>)
    ELSE SplitComma(Tail(atoms), Append(piece, Head(atoms)))

\* VM._parse_operand_value on a stripped piece
_parse_operand_value(piece) ==
    LET op_str == Text(piece)
    IN  IF IsTrueText(op_str) THEN BoolV(TRUE)
        ELSE IF IsFalseText(op_str) THEN BoolV(FALSE)
        ELSE IF piece # <<>> /\ Head(piece) = "\"" /\ Last(piece) = "\""
             THEN StrV(Text(SubSeq(piece, 2, Len(piece) - 1)))
        ELSE IF IsIntLit(op_str) THEN IntV(IntOf(op_str))
        ELSE IF op_str \in DOMAIN FloatLits THEN FloatLits[op_str]
        ELSE StrV(op_str)

\* Instruction(opcode, *operands, line_num=i)
Instruction(opcode, operands, line_num) ==
    [opcode |-> opcode, operands |-> operands, line_num |-> line_num]

JumpOpcodes == {"JUMP", "JUMPT", "JUMPF"}

\* The first pass of load_program over lines[i..]: the instructions and the
\* label table built so far, and "syntax" if a line matched no opcode.
RECURSIVE ParseLines(_, _, _, _)
ParseLines(tac_code_lines, i, raw_instructions, labels) ==
    IF i > Len(tac_code_lines)
    THEN [raw |-> raw_instructions, labels |-> labels, err |-> ""]
    ELSE
      LET line == Strip(tac_code_lines[i])
      IN  IF line = <<>> \/ Head(line) = "#"
          THEN ParseLines(tac_code_lines, i + 1, raw_instructions, labels)
          ELSE IF Last(line) = ":"
          THEN ParseLines(tac_code_lines, i + 1, raw_instructions,
                          DictSet(labels, Text(Front(line)), Len(raw_instructions)))
          ELSE IF ~IsWordAtom(Head(line))
          THEN [raw |-> raw_instructions, labels |-> labels, err |-> "syntax"]
          ELSE
            LET opcode == Upper(Head(line))
                operands_str == Strip(Tail(line))
                pieces == IF operands_str = <<>> THEN <<>>
                          ELSE SplitComma(operands_str, <<>>)
                operands == [k \in 1..Len(pieces) |->
                               _parse_operand_value(Strip(pieces[k]))]
            IN  ParseLines(tac_code_lines, i + 1,
                           Append(raw_instructions,
                                  Instruction(opcode, operands, i - 1)),
                           labels)

\* The resolution pass over program[k..]; the program keeps the operands
\* rewritten before a raise.
RECURSIVE ResolveJumps(_, _, _)
ResolveJumps(program, labels, k) ==
    IF k > Len(program) THEN [program |-> program, err |-> ""]
    ELSE
      LET instr == program[k]
      IN  IF instr.opcode \notin JumpOpcodes
          THEN ResolveJumps(program, labels, k + 1)
          ELSE IF instr.operands = <<>>
          THEN [program |-> program, err |-> "index"]
          ELSE
            LET target_label_name == instr.operands[1]
            IN  IF ~(IsStr(target_label_name) /\ target_label_name.s \in DOMAIN labels)
                THEN [program |-> program, err |-> "undefined_label"]
                ELSE ResolveJumps(
                       [program EXCEPT ![k].operands[1] = IntV(labels[target_label_name.s])],
                       labels, k + 1)

\* load_program as it would be without the resolution pass
LoadUnresolved(tac_code_lines) ==
    LET first == ParseLines(tac_code_lines, 1, <<>>, EmptyDict)
    IN  IF first.err # ""
        THEN [program |-> <<>>, labels |-> first.labels, err |-> first.err]
        ELSE [program |-> first.raw, labels |-> first.labels, err |-> ""]

\* VM.load_program after reset_state: what self.program and self.labels hold
\* when it returns or raises, and err: "" on success, else the error raised
\* ("syntax", "undefined_label", or "index" for a jump without operands).
load_program(tac_code_lines) ==
    LET first == ParseLines(tac_code_lines, 1, <<>>, EmptyDict)
    IN  IF first.err # ""
        THEN [program |-> <<>>, labels |-> first.labels, err |-> first.err]
        ELSE LET second == ResolveJumps(first.raw, first.labels, 1)
             IN  [program |-> second.program, labels |-> first.labels,
                  err |-> second.err]

-----------------------------------------------------------------------------
(* The engine.  Its operations work on a record s of the engine's fields   *)
(* (program, labels, pc, global_memory, heap, free_heap_slots, call_stack, *)
(* current_params, running, halted, console) and give back the record      *)
(* after the call.  An operation that can raise gives [s, exc]: the fields *)
(* as they are when it returns or raises, and the message raised ("" if    *)
(* none).  Python indexes from 0, a TLA+ sequence from 1: heap address a   *)
(* is s.heap[a + 1].                                                       *)

Ok(s) == [s |-> s, exc |-> ""]

Fail(s, msg) == [s |-> s, exc |-> msg]

\* StackFrame(func_name, return_address, return_var_name)
StackFrame(func_name, return_address, return_var_name) ==
    [func_name |-> func_name, return_address |-> return_address,
     return_var_name |-> return_var_name,
     locals |-> EmptyDict, params |-> EmptyDict]

\* self.call_stack[-1]
TopFrame(s) == s.call_stack[Len(s.call_stack)]

\* 0 <= a < len(self.heap) for an int (or bool) a
InHeap(s, a) == IsInt(a) /\ 0 <= IntVal(a) /\ IntVal(a) < Len(s.heap)

\* VM._log_console with a console widget attached
_log_console(s, message) == [s EXCEPT !.console = Append(@, message)]

PointerKinds == {StrV("heap"), StrV("global"), StrV("local")}

\* _get_value_from_pointer as it would be if a local pointer used with no
\* frame fell back to the global of that name
LoadLocalFallsBack(s, pointer) ==
    IF ~IsTuple(pointer) \/ Len(pointer.e) # 2
    THEN Raise("Invalid pointer format")
    ELSE
      LET ptr_type == pointer.e[1]
          location == pointer.e[2]
      IN  CASE ptr_type = StrV("heap") ->
                 IF ~InHeap(s, location)
                 THEN Raise("Invalid heap address in pointer")
                 ELSE s.heap[IntVal(location) + 1]
            [] ptr_type = StrV("global") -> DictGet(s.global_memory, location)
            [] ptr_type = StrV("local") ->
                 IF s.call_stack = <<>>
                 THEN DictGet(s.global_memory, location)
                 ELSE DictGet(TopFrame(s).locals, location)
            [] OTHER -> Raise("Unknown pointer type")

\* VM._get_value_from_pointer: the value, or the exception raised
_get_value_from_pointer(s, pointer) ==
    IF ~IsTuple(pointer) \/ Len(pointer.e) # 2
    THEN Raise("Invalid pointer format")
    ELSE
      LET ptr_type == pointer.e[1]
          location == pointer.e[2]
      IN  CASE ptr_type = StrV("heap") ->
                 IF ~InHeap(s, location)
                 THEN Raise("Invalid heap address in pointer")
                 ELSE s.heap[IntVal(location) + 1]
            [] ptr_type = StrV("global") -> DictGet(s.global_memory, location)
            [] ptr_type = StrV("local") ->
                 IF s.call_stack = <<>>
                 THEN Raise("Attempted to access local pointer with no active stack frame.")
                 ELSE DictGet(TopFrame(s).locals, location)
            [] OTHER -> Raise("Unknown pointer type")

\* _get_operand_value as it would be if a name bound nowhere were an error
ReadUnboundRaises(s, operand_name) ==
    IF ~IsStr(operand_name) THEN operand_name
    ELSE IF s.call_stack # <<>> /\ operand_name \in DOMAIN TopFrame(s).locals
    THEN TopFrame(s).locals[operand_name]
    ELSE IF operand_name \in DOMAIN s.global_memory
    THEN s.global_memory[operand_name]
    ELSE Raise("undefined variable")

\* VM._get_operand_value: the value, or the exception raised
_get_operand_value(s, operand_name) ==
    IF ~IsStr(operand_name) THEN operand_name
    ELSE IF s.call_stack # <<>> /\ operand_name \in DOMAIN TopFrame(s).locals
    THEN TopFrame(s).locals[operand_name]
    ELSE IF s.call_stack # <<>> /\ operand_name \in DOMAIN TopFrame(s).params
    THEN LET param_info == TopFrame(s).params[operand_name]
         IN  IF IsTuple(param_info) /\ param_info.e = <<>>
             THEN Raise("tuple index out of range")
             ELSE IF IsTuple(param_info) /\ param_info.e[1] \in PointerKinds
             THEN _get_value_from_pointer(s, param_info)
             ELSE param_info
    ELSE IF operand_name \in DOMAIN s.global_memory
    THEN s.global_memory[operand_name]
    ELSE NoneV

\* frame.locals[var_name] = value in the top frame
SetLocal(s, var_name, value) ==
    [s EXCEPT !.call_stack[Len(s.call_stack)].locals = DictSet(@, var_name, value)]

\* _set_variable_value as it would be if a write inside a frame went to a
\* global of the same name when there is one
WriteFindsGlobal(s, var_name, value) ==
    IF s.call_stack # <<>> /\ var_name \notin DOMAIN s.global_memory
    THEN IF var_name \notin DOMAIN TopFrame(s).locals /\ ~IsStr(var_name)
         THEN Fail(s, "object has no attribute 'startswith'")
         ELSE Ok(SetLocal(s, var_name, value))
    ELSE Ok([s EXCEPT !.global_memory = DictSet(@, var_name, value)])

\* VM._set_variable_value
_set_variable_value(s, var_name, value) ==
    IF s.call_stack # <<>>
    THEN IF var_name \notin DOMAIN TopFrame(s).locals /\ ~IsStr(var_name)
         THEN Fail(s, "object has no attribute 'startswith'")
         ELSE Ok(SetLocal(s, var_name, value))
    ELSE Ok([s EXCEPT !.global_memory = DictSet(@, var_name, value)])

\* _set_value_at_pointer as it would be if a local pointer stayed bound to
\* the frame its address was taken in: the lowest frame holding the name
StoreWhereTaken(s, pointer, value) ==
    IF ~IsTuple(pointer) \/ Len(pointer.e) # 2
    THEN Fail(s, "Invalid pointer format for storing")
    ELSE
      LET ptr_type == pointer.e[1]
          location == pointer.e[2]
          holders == {k \in 1..Len(s.call_stack) :
                         location \in DOMAIN s.call_stack[k].locals}
          taken == IF holders = {} THEN Len(s.call_stack)
                   ELSE CHOOSE k \in holders : \A j \in holders : k <= j
      IN  CASE ptr_type = StrV("heap") ->
                 IF ~InHeap(s, location)
                 THEN Fail(s, "Invalid heap address in pointer")
                 ELSE Ok([s EXCEPT !.heap[IntVal(location) + 1] = value])
            [] ptr_type = StrV("global") ->
                 Ok([s EXCEPT !.global_memory = DictSet(@, location, value)])
            [] ptr_type = StrV("local") ->
                 IF s.call_stack = <<>>
                 THEN Fail(s, "Attempted to set local pointer value with no active stack frame.")
                 ELSE Ok([s EXCEPT !.call_stack[taken].locals =
                                       DictSet(@, location, value)])
            [] OTHER -> Fail(s, "Unknown pointer type")

\* VM._set_value_at_pointer
_set_value_at_pointer(s, pointer, value) ==
    IF ~IsTuple(pointer) \/ Len(pointer.e) # 2
    THEN Fail(s, "Invalid pointer format for storing")
    ELSE
      LET ptr_type == pointer.e[1]
          location == pointer.e[2]
      IN  CASE ptr_type = StrV("heap") ->
                 IF ~InHeap(s, location)
                 THEN Fail(s, "Invalid heap address in pointer")
                 ELSE Ok([s EXCEPT !.heap[IntVal(location) + 1] = value])
            [] ptr_type = StrV("global") ->
                 Ok([s EXCEPT !.global_memory = DictSet(@, location, value)])
            [] ptr_type = StrV("local") ->
                 IF s.call_stack = <<>>
                 THEN Fail(s, "Attempted to set local pointer value with no active stack frame.")
                 ELSE Ok(SetLocal(s, location, value))
            [] OTHER -> Fail(s, "Unknown pointer type")

\* VM._get_variable_address
_get_variable_address(s, var_name) ==
    IF s.call_stack # <<>>
       /\ (var_name \in DOMAIN TopFrame(s).locals \/ var_name \in DOMAIN TopFrame(s).params)
    THEN TupV(<<StrV("local"), var_name>>)
    ELSE TupV(<<StrV("global"), var_name>>)

\* pop(0) as it would be if the list were a stack: pop() takes the tail
PopLast(s) ==
    [addr |-> s.free_heap_slots[Len(s.free_heap_slots)],
     s |-> [s EXCEPT !.free_heap_slots = SubSeq(@, 1, Len(@) - 1)]]

\* self.free_heap_slots.pop(0): the address popped and the list left
PopFirst(s) ==
    [addr |-> Head(s.free_heap_slots),
     s |-> [s EXCEPT !.free_heap_slots = Tail(@)]]

\* _allocate_heap_slot as it would be if the new indices were put on the
\* free-list from the highest down
GrowsDescending(s) ==
    IF s.free_heap_slots # <<>> THEN PopFirst(s)
    ELSE LET current_heap_size == Len(s.heap)
             grown == [s EXCEPT !.heap = @ \o NoneList(HeapGrow)]
             new_slots == [k \in 1..HeapGrow |-> Len(grown.heap) - k]
         IN  PopFirst([grown EXCEPT !.free_heap_slots = @ \o new_slots])

\* VM._allocate_heap_slot: [addr, s]
_allocate_heap_slot(s) ==
    IF s.free_heap_slots # <<>> THEN PopFirst(s)
    ELSE LET current_heap_size == Len(s.heap)
             grown == [s EXCEPT !.heap = @ \o NoneList(HeapGrow)]
             new_slots == Range(current_heap_size, Len(grown.heap))
         IN  PopFirst([grown EXCEPT !.free_heap_slots = @ \o new_slots])

\* _free_heap_slot as it would be if the freed address went to the head of
\* the free-list (insert(0, addr) for append(addr))
FreeToHead(s, addr) ==
    IF InHeap(s, addr)
    THEN LET a == IntVal(addr)
             cleared == [s EXCEPT !.heap[a + 1] = NoneV]
         IN  IF ~InList(a, s.free_heap_slots)
             THEN [cleared EXCEPT !.free_heap_slots = <<a>> \o @]
             ELSE cleared
    ELSE _log_console(s, [kind |-> "warning", text |-> "Attempted to free invalid or out-of-bounds heap address"])

\* _free_heap_slot as it would be without the test that the address is not
\* already in the free-list
FreeUnchecked(s, addr) ==
    IF InHeap(s, addr)
    THEN LET a == IntVal(addr)
         IN  [s EXCEPT !.heap[a + 1] = NoneV, !.free_heap_slots = Append(@, a)]
    ELSE _log_console(s, [kind |-> "warning", text |-> "Attempted to free invalid or out-of-bounds heap address"])

\* _free_heap_slot as it would be if freeing an index that is free already
\* took it out of the free-list
FreeToggles(s, addr) ==
    IF InHeap(s, addr)
    THEN LET a == IntVal(addr)
             cleared == [s EXCEPT !.heap[a + 1] = NoneV]
         IN  IF ~InList(a, s.free_heap_slots)
             THEN [cleared EXCEPT !.free_heap_slots = Append(@, a)]
             ELSE [cleared EXCEPT !.free_heap_slots =
                                      SelectSeq(@, LAMBDA x : x # a)]
    ELSE _log_console(s, [kind |-> "warning", text |-> "Attempted to free invalid or out-of-bounds heap address"])

\* _free_heap_slot as it would be if it released the index after the
\* address as well
FreeWithNext(s, addr) ==
    IF InHeap(s, addr)
    THEN LET a == IntVal(addr)
             both == {b \in {a, a + 1} : b < Len(s.heap)}
             cleared == [s EXCEPT !.heap = [k \in 1..Len(@) |->
                                    IF (k - 1) \in both THEN NoneV ELSE @[k]]]
             fresh == SelectSeq(<<a, a + 1>>,
                                LAMBDA b : b \in both /\ ~InList(b, s.free_heap_slots))
         IN  [cleared EXCEPT !.free_heap_slots = @ \o fresh]
    ELSE _log_console(s, [kind |-> "warning", text |-> "Attempted to free invalid or out-of-bounds heap address"])

\* VM._free_heap_slot
_free_heap_slot(s, addr) ==
    IF InHeap(s, addr)
    THEN LET a == IntVal(addr)
             cleared == [s EXCEPT !.heap[a + 1] = NoneV]
         IN  IF ~InList(a, s.free_heap_slots)
             THEN [cleared EXCEPT !.free_heap_slots = Append(@, a)]
             ELSE cleared
    ELSE _log_console(s, [kind |-> "warning", text |-> "Attempted to free invalid or out-of-bounds heap address"])

-----------------------------------------------------------------------------
(* Operators of the instruction handlers *)

\* s * n for a str s
RECURSIVE StrRepeat(_, _)
StrRepeat(str, n) == IF n <= 0 THEN "" ELSE str \o StrRepeat(str, n - 1)

\* t * n for a tuple t
RECURSIVE SeqRepeat(_, _)
SeqRepeat(seq, n) == IF n <= 0 THEN <<>> ELSE seq \o SeqRepeat(seq, n - 1)

\* a number from a fraction: an int stays an int unless a float took part
MkNum(isFloat, n, d) == IF isFloat THEN FloatV(n, d) ELSE IntV(n)

AnyFloat(v1, v2) == v1.t = "float" \/ v2.t = "float"

TypeError == Raise("unsupported operand type(s)")

\* val1 % val2 on numbers, val2 # 0: the sign follows the divisor
PyMod(v1, v2) ==
    LET n == NumN(v1) * NumD(v2)
        m == NumN(v2) * NumD(v1)
        d == NumD(v1) * NumD(v2)
    IN  MkNum(AnyFloat(v1, v2), n - m * FloorDiv(n, m), d)

\* the binary operation of _handle_arithmetic: the result, or the exception.
\* The order of two different strings, tuples or lists is not modelled:
\* no program of the model compares them with LT, LE, GT or GE.
Arith(opcode, val1, val2) ==
    LET both == IsNum(val1) /\ IsNum(val2)
        fl == AnyFloat(val1, val2)
    IN  CASE opcode = "ADD" ->
               IF both THEN MkNum(fl, NumN(val1) * NumD(val2) + NumN(val2) * NumD(val1),
                                  NumD(val1) * NumD(val2))
               ELSE IF IsStr(val1) /\ IsStr(val2) THEN StrV(val1.s \o val2.s)
               ELSE IF IsTuple(val1) /\ IsTuple(val2) THEN TupV(val1.e \o val2.e)
               ELSE IF IsList(val1) /\ IsList(val2) THEN ListV(val1.e \o val2.e)
               ELSE TypeError
          [] opcode = "SUB" ->
               IF both THEN MkNum(fl, NumN(val1) * NumD(val2) - NumN(val2) * NumD(val1),
                                  NumD(val1) * NumD(val2))
               ELSE TypeError
          [] opcode = "MUL" ->
               IF both THEN MkNum(fl, NumN(val1) * NumN(val2), NumD(val1) * NumD(val2))
               ELSE IF IsStr(val1) /\ IsInt(val2) THEN StrV(StrRepeat(val1.s, IntVal(val2)))
               ELSE IF IsInt(val1) /\ IsStr(val2) THEN StrV(StrRepeat(val2.s, IntVal(val1)))
               ELSE IF IsTuple(val1) /\ IsInt(val2) THEN TupV(SeqRepeat(val1.e, IntVal(val2)))
               ELSE IF IsInt(val1) /\ IsTuple(val2) THEN TupV(SeqRepeat(val2.e, IntVal(val1)))
               ELSE IF IsList(val1) /\ IsInt(val2) THEN ListV(SeqRepeat(val1.e, IntVal(val2)))
               ELSE IF IsInt(val1) /\ IsList(val2) THEN ListV(SeqRepeat(val2.e, IntVal(val1)))
               ELSE TypeError
          [] opcode = "DIV" ->
               IF PyEq(val2, IntV(0)) THEN Raise("Division by zero")
               ELSE IF both THEN FloatV(NumN(val1) * NumD(val2), NumD(val1) * NumN(val2))
               ELSE TypeError
          [] opcode = "MOD" ->
               IF PyEq(val2, IntV(0)) THEN Raise("Modulo by zero")
               ELSE IF both THEN PyMod(val1, val2)
               ELSE TypeError
          [] opcode = "EQ" -> BoolV(PyEq(val1, val2))
          [] opcode = "NE" -> BoolV(~PyEq(val1, val2))
          [] opcode \in {"LT", "LE", "GT", "GE"} ->
               IF both
               THEN BoolV(CASE opcode = "LT" -> NumLt(val1, val2)
                            [] opcode = "LE" -> ~NumLt(val2, val1)
                            [] opcode = "GT" -> NumLt(val2, val1)
                            [] OTHER         -> ~NumLt(val1, val2))
               ELSE IF val1 = val2 /\ (IsStr(val1) \/ IsTuple(val1) \/ IsList(val1))
               THEN BoolV(opcode \in {"LE", "GE"})
               ELSE TypeError
          [] opcode = "OR"  -> IF Truthy(val1) THEN val1 ELSE val2
          [] opcode = "AND" -> IF Truthy(val1) THEN val2 ELSE val1
          [] OTHER -> NoneV

\* str(v), for CONCAT.  The digits of a float are written for halves only.
RECURSIVE PyStr(_, _)
PyStr(v, quoted) ==
    CASE v.t = "int"   -> ToString(v.i)
      [] v.t = "bool"  -> IF v.b THEN "True" ELSE "False"
      [] v.t = "none"  -> "None"
      [] v.t = "str"   -> IF quoted THEN "'" \o v.s \o "'" ELSE v.s
      [] v.t = "float" ->
           IF v.d = 1 THEN ToString(v.n) \o ".0"
           ELSE IF v.d = 2 /\ v.n > 0 THEN ToString(v.n \div 2) \o ".5"
           ELSE ToString(v.n) \o "/" \o ToString(v.d)
      [] v.t = "tuple" ->
           IF Len(v.e) = 0 THEN "()"
           ELSE IF Len(v.e) = 1 THEN "(" \o PyStr(v.e[1], TRUE) \o ",)"
           ELSE LET RECURSIVE Items(_)
                    Items(k) == IF k = Len(v.e) THEN PyStr(v.e[k], TRUE)
                                ELSE PyStr(v.e[k], TRUE) \o ", " \o Items(k + 1)
                IN  "(" \o Items(1) \o ")"
      [] v.t = "list" ->
           IF Len(v.e) = 0 THEN "[]"
           ELSE LET RECURSIVE Elements(_)
                    Elements(k) == IF k = Len(v.e) THEN PyStr(v.e[k], TRUE)
                                   ELSE PyStr(v.e[k], TRUE) \o ", " \o Elements(k + 1)
                IN  "[" \o Elements(1) \o "]"
      [] OTHER -> ""

\* the characters of the strings GETCHAR is run on
StrChars(str) ==
    CASE str = "ab" -> <<"a", "b">>
      [] str = "hi" -> <<"h", "i">>
      [] OTHER -> [k \in 1..Len(str) |-> "?"]

\* string_val[index_val]
GetChar(string_val, index_val) ==
    LET n == Len(string_val.s)
        k == IntVal(index_val)
    IN  IF k >= n \/ k < -n THEN Raise("string index out of range")
        ELSE StrV(StrChars(string_val.s)[(IF k < 0 THEN k + n ELSE k) + 1])

\* self._set_variable_value(target, value) where computing value may have raised
SetResult(s, target, value) ==
    IF IsExc(value) THEN Fail(s, value.msg) ELSE _set_variable_value(s, target, value)

\* self.pc += 1 at the end of a handler that did not raise
IncPc(r) == IF r.exc # "" THEN r ELSE Ok([r.s EXCEPT !.pc = @ + 1])

\* a, b, c = operands with the wrong number of operands
UnpackError == "not enough values to unpack"

\* the first exception among the values, in evaluation order, or NoneV
FirstExc(values) ==
    IF \E k \in 1..Len(values) : IsExc(values[k])
    THEN values[CHOOSE k \in 1..Len(values) :
                  IsExc(values[k]) /\ \A j \in 1..(k - 1) : ~IsExc(values[j])]
    ELSE NoneV

-----------------------------------------------------------------------------
(* The instruction handlers: [s, exc] after handler(instr) *)

_handle_assignment(s, instr) ==
    LET operands == instr.operands
    IN  IF Len(operands) # 2 THEN Fail(s, UnpackError)
        ELSE IF instr.opcode = "ASSIGN"
        THEN IncPc(SetResult(s, operands[1], _get_operand_value(s, operands[2])))
        ELSE IncPc(_set_variable_value(s, operands[1], operands[2]))

_handle_arithmetic(s, instr) ==
    LET operands == instr.operands
    IN  IF Len(operands) # 3 THEN Fail(s, UnpackError)
        ELSE
          LET val1 == _get_operand_value(s, operands[2])
              val2 == _get_operand_value(s, operands[3])
              result == IF IsExc(val1) THEN val1
                        ELSE IF IsExc(val2) THEN val2
                        ELSE Arith(instr.opcode, val1, val2)
          IN  IncPc(SetResult(s, operands[1], result))

_handle_string(s, instr) ==
    LET opcode == instr.opcode
        operands == instr.operands
    IN  CASE opcode = "CONCAT" ->
               IF Len(operands) # 3 THEN Fail(s, UnpackError)
               ELSE LET val1 == _get_operand_value(s, operands[2])
                        val2 == _get_operand_value(s, operands[3])
                        result == IF IsExc(val1) THEN val1
                                  ELSE IF IsExc(val2) THEN val2
                                  ELSE StrV(PyStr(val1, FALSE) \o PyStr(val2, FALSE))
                    IN  IncPc(SetResult(s, operands[1], result))
          [] opcode = "STRLEN" ->
               IF Len(operands) # 2 THEN Fail(s, UnpackError)
               ELSE LET val == _get_operand_value(s, operands[2])
                        result == IF IsExc(val) THEN val
                                  ELSE IF ~IsStr(val) THEN Raise("STRLEN expects a string")
                                  ELSE IntV(Len(val.s))
                    IN  IncPc(SetResult(s, operands[1], result))
          [] opcode = "GETCHAR" ->
               IF Len(operands) # 3 THEN Fail(s, UnpackError)
               ELSE LET string_val == _get_operand_value(s, operands[2])
                        index_val == _get_operand_value(s, operands[3])
                        result == IF IsExc(string_val) THEN string_val
                                  ELSE IF IsExc(index_val) THEN index_val
                                  ELSE IF ~IsStr(string_val) THEN Raise("GETCHAR expects a string")
                                  ELSE IF ~IsInt(index_val) THEN Raise("GETCHAR expects an integer index")
                                  ELSE GetChar(string_val, index_val)
                    IN  IncPc(SetResult(s, operands[1], result))
          [] OTHER -> IncPc(Ok(s))

\* a jump as it would be if it landed one past the index of its label
JumpPastLabel(s, target) == Ok([s EXCEPT !.pc = target.i + 1])

\* self.pc = operands[0]: the Loader made the target an int
JumpTo(s, target) == Ok([s EXCEPT !.pc = target.i])

\* _handle_jump as it would be if a conditional jump that is not taken left
\* the program counter where it was
JumpNotTakenStays(s, instr) ==
    LET opcode == instr.opcode
        operands == instr.operands
    IN  IF opcode = "JUMP"
        THEN IF operands = <<>> THEN Fail(s, "list index out of range")
             ELSE JumpTo(s, operands[1])
        ELSE IF Len(operands) # 2 THEN Fail(s, UnpackError)
        ELSE LET cond == _get_operand_value(s, operands[2])
             IN  IF IsExc(cond) THEN Fail(s, cond.msg)
                 ELSE IF Truthy(cond) = (opcode = "JUMPT")
                 THEN JumpTo(s, operands[1])
                 ELSE Ok(s)

_handle_jump(s, instr) ==
    LET opcode == instr.opcode
        operands == instr.operands
    IN  IF opcode = "JUMP"
        THEN IF operands = <<>> THEN Fail(s, "list index out of range")
             ELSE JumpTo(s, operands[1])
        ELSE IF Len(operands) # 2 THEN Fail(s, UnpackError)
        ELSE LET cond == _get_operand_value(s, operands[2])
             IN  IF IsExc(cond) THEN Fail(s, cond.msg)
                 ELSE IF Truthy(cond) = (opcode = "JUMPT")
                 THEN JumpTo(s, operands[1])
                 ELSE IncPc(Ok(s))

\* f'ARG{i}'
ArgName(i) == StrV("ARG" \o ToString(i))

\* the loop of CALL as it would be without the line that mirrors ARGi into
\* the locals
BindParamsOnly(frame, current_params) ==
    LET bound == [a \in {ArgName(k - 1) : k \in 1..Len(current_params)} |->
                    current_params[CHOOSE k \in 1..Len(current_params) : ArgName(k - 1) = a]]
    IN  [frame EXCEPT !.params = bound]

\* the loop of CALL over enumerate(self.current_params): ARGi in both maps
BindParams(frame, current_params) ==
    LET bound == [a \in {ArgName(k - 1) : k \in 1..Len(current_params)} |->
                    current_params[CHOOSE k \in 1..Len(current_params) : ArgName(k - 1) = a]]
    IN  [frame EXCEPT !.params = bound, !.locals = bound]

\* int(num_params_expected): the int, or the exception
ToInt(v) ==
    CASE IsInt(v) -> IntV(IntVal(v))
      [] v.t = "float" -> IntV(IF v.n >= 0 THEN v.n \div v.d ELSE -((-v.n) \div v.d))
      [] IsStr(v) /\ IsIntLit(v.s) -> IntV(IntOf(v.s))
      [] IsStr(v) -> Raise("invalid literal for int()")
      [] OTHER -> Raise("int() argument must be a string or a number")

\* the CALL branch as it would be if it left the pending parameters in the
\* buffer
CallKeepsParams(s, instr) ==
    LET operands == instr.operands
    IN  IF Len(operands) # 3 THEN Fail(s, UnpackError)
        ELSE
          LET func_name_label == operands[1]
              num_params_expected == ToInt(operands[2])
              return_var_name == operands[3]
          IN  IF IsExc(num_params_expected) THEN Fail(s, num_params_expected.msg)
              ELSE IF Len(s.current_params) # num_params_expected.i
              THEN Fail(s, "expected parameters")
              ELSE
                LET new_frame == BindParams(
                        StackFrame(func_name_label, s.pc + 1, return_var_name),
                        s.current_params)
                    pushed == [s EXCEPT !.call_stack = Append(@, new_frame)]
                IN  IF ~(IsStr(func_name_label) /\ func_name_label.s \in DOMAIN s.labels)
                    THEN Fail(pushed, "KeyError")
                    ELSE Ok([pushed EXCEPT !.pc = s.labels[func_name_label.s]])

\* the CALL branch as it would be if it emptied the buffer before it
\* compared the counts
CallDrainsFirst(s, instr) ==
    LET operands == instr.operands
    IN  IF Len(operands) # 3 THEN Fail(s, UnpackError)
        ELSE
          LET func_name_label == operands[1]
              num_params_expected == ToInt(operands[2])
              return_var_name == operands[3]
          IN  IF IsExc(num_params_expected) THEN Fail(s, num_params_expected.msg)
              ELSE IF Len(s.current_params) # num_params_expected.i
              THEN Fail([s EXCEPT !.current_params = <<>>], "expected parameters")
              ELSE
                LET new_frame == BindParams(
                        StackFrame(func_name_label, s.pc + 1, return_var_name),
                        s.current_params)
                    pushed == [s EXCEPT !.call_stack = Append(@, new_frame),
                                        !.current_params = <<>>]
                IN  IF ~(IsStr(func_name_label) /\ func_name_label.s \in DOMAIN s.labels)
                    THEN Fail(pushed, "KeyError")
                    ELSE Ok([pushed EXCEPT !.pc = s.labels[func_name_label.s]])

\* the CALL branch of _handle_function
Call(s, instr) ==
    LET operands == instr.operands
    IN  IF Len(operands) # 3 THEN Fail(s, UnpackError)
        ELSE
          LET func_name_label == operands[1]
              num_params_expected == ToInt(operands[2])
              return_var_name == operands[3]
          IN  IF IsExc(num_params_expected) THEN Fail(s, num_params_expected.msg)
              ELSE IF Len(s.current_params) # num_params_expected.i
              THEN Fail(s, "expected parameters")
              ELSE
                LET new_frame == BindParams(
                        StackFrame(func_name_label, s.pc + 1, return_var_name),
                        s.current_params)
                    pushed == [s EXCEPT !.call_stack = Append(@, new_frame),
                                        !.current_params = <<>>]
                IN  IF ~(IsStr(func_name_label) /\ func_name_label.s \in DOMAIN s.labels)
                    THEN Fail(pushed, "KeyError")
                    ELSE Ok([pushed EXCEPT !.pc = s.labels[func_name_label.s]])

\* the RETURN branch as it would be if the value were read after the pop,
\* in the caller's scope
ReturnReadAfterPop(s, instr) ==
    LET operands == instr.operands
    IN  IF s.call_stack = <<>>
        THEN Fail(s, "RETURN instruction outside of a function call. Halting.")
        ELSE
          LET old_frame == TopFrame(s)
              popped == [s EXCEPT !.call_stack = Front(@),
                                  !.pc = old_frame.return_address]
              return_value == IF operands # <<>>
                              THEN _get_operand_value(popped, operands[1])
                              ELSE NoneV
          IN  IF IsExc(return_value) THEN Fail(popped, return_value.msg)
              ELSE IF Truthy(old_frame.return_var_name)
              THEN _set_variable_value(popped, old_frame.return_var_name, return_value)
              ELSE Ok(popped)

\* the RETURN branch as it would be if RETURN outside a call were skipped
ReturnSkipsEmptyStack(s, instr) ==
    LET operands == instr.operands
        return_value == IF operands # <<>> THEN _get_operand_value(s, operands[1])
                        ELSE NoneV
    IN  IF IsExc(return_value) THEN Fail(s, return_value.msg)
        ELSE IF s.call_stack = <<>>
        THEN IncPc(Ok(s))
        ELSE
          LET old_frame == TopFrame(s)
              popped == [s EXCEPT !.call_stack = Front(@),
                                  !.pc = old_frame.return_address]
          IN  IF Truthy(old_frame.return_var_name)
              THEN _set_variable_value(popped, old_frame.return_var_name, return_value)
              ELSE Ok(popped)

\* the RETURN branch of _handle_function
Return(s, instr) ==
    LET operands == instr.operands
        return_value == IF operands # <<>> THEN _get_operand_value(s, operands[1])
                        ELSE NoneV
    IN  IF IsExc(return_value) THEN Fail(s, return_value.msg)
        ELSE IF s.call_stack = <<>>
        THEN Fail(s, "RETURN instruction outside of a function call. Halting.")
        ELSE
          LET old_frame == TopFrame(s)
              popped == [s EXCEPT !.call_stack = Front(@),
                                  !.pc = old_frame.return_address]
          IN  IF Truthy(old_frame.return_var_name)
              THEN _set_variable_value(popped, old_frame.return_var_name, return_value)
              ELSE Ok(popped)

\* _handle_function as it would be if PARAM passed the operand as written,
\* leaving a name to be read when the callee uses it
ParamByName(s, instr) ==
    LET opcode == instr.opcode
        operands == instr.operands
    IN  CASE opcode = "PARAM" ->
               IF operands = <<>> THEN Fail(s, "list index out of range")
               ELSE IncPc(Ok([s EXCEPT !.current_params = Append(@, operands[1])]))
          [] opcode = "REF_PARAM" ->
               IF operands = <<>> THEN Fail(s, "list index out of range")
               ELSE LET addr == _get_variable_address(s, operands[1])
                    IN  IncPc(Ok([s EXCEPT !.current_params = Append(@, addr)]))
          [] opcode = "CALL" -> Call(s, instr)
          [] opcode = "RETURN" -> Return(s, instr)
          [] OTHER -> Ok(s)

_handle_function(s, instr) ==
    LET opcode == instr.opcode
        operands == instr.operands
    IN  CASE opcode = "PARAM" ->
               IF operands = <<>> THEN Fail(s, "list index out of range")
               ELSE LET value_to_pass == _get_operand_value(s, operands[1])
                    IN  IF IsExc(value_to_pass) THEN Fail(s, value_to_pass.msg)
                        ELSE IncPc(Ok([s EXCEPT !.current_params = Append(@, value_to_pass)]))
          [] opcode = "REF_PARAM" ->
               IF operands = <<>> THEN Fail(s, "list index out of range")
               ELSE LET addr == _get_variable_address(s, operands[1])
                    IN  IncPc(Ok([s EXCEPT !.current_params = Append(@, addr)]))
          [] opcode = "CALL" -> Call(s, instr)
          [] opcode = "RETURN" -> Return(s, instr)
          [] OTHER -> Ok(s)

\* [self._allocate_heap_slot() for _ in range(n)]: [s, addrs].  The n calls
\* are made one after the other; the run is cut in halves to keep the
\* evaluation shallow.
RECURSIVE AllocateSlots(_, _, _)
AllocateSlots(s, n, addrs) ==
    IF n <= 0 THEN [s |-> s, addrs |-> addrs]
    ELSE IF n = 1
    THEN LET got == _allocate_heap_slot(s)
         IN  [s |-> got.s, addrs |-> Append(addrs, got.addr)]
    ELSE LET half == AllocateSlots(s, n \div 2, addrs)
         IN  IF Len(half.addrs) = Len(addrs) + (n \div 2)
             THEN AllocateSlots(half.s, n - (n \div 2), half.addrs)
             ELSE half

\* for addr in allocated_addresses: self.heap[addr] = None
ClearSlots(s, addrs) ==
    [s EXCEPT !.heap = [k \in 1..Len(@) |->
                          IF InList(k - 1, addrs) THEN NoneV ELSE @[k]]]

\* the ALLOC_HEAP branch of _handle_heap
AllocHeap(s, instr) ==
    LET operands == instr.operands
    IN  IF Len(operands) # 2 THEN Fail(s, UnpackError)
        ELSE
          LET size_val == _get_operand_value(s, operands[2])
          IN  IF IsExc(size_val) THEN Fail(s, size_val.msg)
              ELSE IF ~IsInt(size_val) \/ IntVal(size_val) <= 0
              THEN Fail(s, "ALLOC_HEAP size must be a positive integer")
              ELSE
                LET got == AllocateSlots(s, IntVal(size_val), <<>>)
                    cleared == ClearSlots(got.s, got.addrs)
                IN  _set_variable_value(cleared, operands[1], IntV(got.addrs[1]))

\* the FREE_HEAP branch of _handle_heap
FreeHeap(s, instr) ==
    LET operands == instr.operands
    IN  IF operands = <<>> THEN Fail(s, "list index out of range")
        ELSE
          LET ptr_addr == _get_operand_value(s, operands[1])
          IN  IF IsExc(ptr_addr) THEN Fail(s, ptr_addr.msg)
              ELSE IF ~InHeap(s, ptr_addr)
              THEN Ok(_log_console(s, [kind |-> "warning",
                                       text |-> "FREE_HEAP called with invalid address"]))
              ELSE Ok(_log_console(_free_heap_slot(s, ptr_addr),
                                   [kind |-> "note",
                                    text |-> "Simplified FREE_HEAP called."]))

\* base_addr + index_val checked as INDEX_LOAD and INDEX_STORE check it: the
\* effective address as an int, or the exception
EffectiveAddr(s, opcode, base_addr, index_val) ==
    IF ~InHeap(s, base_addr) THEN Raise(opcode \o " error: Invalid base address")
    ELSE IF ~IsInt(index_val) THEN Raise(opcode \o " error: Index must be an integer")
    ELSE LET effective_addr == IntVal(base_addr) + IntVal(index_val)
         IN  IF ~(0 <= effective_addr /\ effective_addr < Len(s.heap))
             THEN Raise(opcode \o " error: Address is out of bounds.")
             ELSE IntV(effective_addr)

_handle_heap(s, instr) ==
    LET opcode == instr.opcode
        operands == instr.operands
    IN  CASE opcode = "ALLOC_HEAP" -> IncPc(AllocHeap(s, instr))
          [] opcode = "FREE_HEAP" -> IncPc(FreeHeap(s, instr))
          [] opcode = "ADDR_OF" ->
               IF Len(operands) # 2 THEN Fail(s, UnpackError)
               ELSE IncPc(_set_variable_value(s, operands[1],
                                              _get_variable_address(s, operands[2])))
          [] opcode = "DEREF_LOAD" ->
               IF Len(operands) # 2 THEN Fail(s, UnpackError)
               ELSE LET pointer == _get_operand_value(s, operands[2])
                        value == IF IsExc(pointer) THEN pointer
                                 ELSE _get_value_from_pointer(s, pointer)
                    IN  IncPc(SetResult(s, operands[1], value))
          [] opcode = "DEREF_STORE" ->
               IF Len(operands) # 2 THEN Fail(s, UnpackError)
               ELSE LET pointer == _get_operand_value(s, operands[1])
                        value_to_store == _get_operand_value(s, operands[2])
                        exc == FirstExc(<<pointer, value_to_store>>)
                    IN  IF IsExc(exc) THEN Fail(s, exc.msg)
                        ELSE IncPc(_set_value_at_pointer(s, pointer, value_to_store))
          [] opcode = "INDEX_LOAD" ->
               IF Len(operands) # 3 THEN Fail(s, UnpackError)
               ELSE LET base_addr == _get_operand_value(s, operands[2])
                        index_val == _get_operand_value(s, operands[3])
                        exc == FirstExc(<<base_addr, index_val>>)
                        addr == IF IsExc(exc) THEN exc
                                ELSE EffectiveAddr(s, opcode, base_addr, index_val)
                    IN  IncPc(SetResult(s, operands[1],
                                        IF IsExc(addr) THEN addr ELSE s.heap[addr.i + 1]))
          [] opcode = "INDEX_STORE" ->
               IF Len(operands) # 3 THEN Fail(s, UnpackError)
               ELSE LET base_addr == _get_operand_value(s, operands[1])
                        index_val == _get_operand_value(s, operands[2])
                        value_to_store == _get_operand_value(s, operands[3])
                        exc == FirstExc(<<base_addr, index_val, value_to_store>>)
                        addr == IF IsExc(exc) THEN exc
                                ELSE EffectiveAddr(s, opcode, base_addr, index_val)
                    IN  IF IsExc(addr) THEN Fail(s, addr.msg)
                        ELSE IncPc(Ok([s EXCEPT !.heap[addr.i + 1] = value_to_store]))
          [] OTHER -> IncPc(Ok(s))

\* -val
Negate(val) ==
    IF IsExc(val) THEN val
    ELSE IF IsNum(val) THEN MkNum(val.t = "float", -NumN(val), NumD(val))
    ELSE Raise("bad operand type for unary -")

_handle_misc(s, instr) ==
    LET opcode == instr.opcode
        operands == instr.operands
    IN  CASE opcode = "PRINT" ->
               IF operands = <<>> THEN Fail(s, "list index out of range")
               ELSE LET value == _get_operand_value(s, operands[1])
                    IN  IF IsExc(value) THEN Fail(s, value.msg)
                        ELSE IncPc(Ok(_log_console(s, [kind |-> "output", value |-> value])))
          [] opcode = "HALT" ->
               Ok(_log_console([s EXCEPT !.halted = TRUE, !.running = FALSE, !.pc = @ + 1],
                               [kind |-> "halted"]))
          [] opcode = "UMINUS" ->
               IF Len(operands) # 2 THEN Fail(s, UnpackError)
               ELSE IncPc(SetResult(s, operands[1],
                                    Negate(_get_operand_value(s, operands[2]))))
          [] OTHER -> Ok(s)

-----------------------------------------------------------------------------
(* Dispatch *)

AssignmentOpcodes == {"ASSIGN", "CONST_ASSIGN"}

ArithmeticOpcodes == {"ADD", "SUB", "MUL", "DIV", "MOD", "EQ", "NE", "LT", "LE",
                      "GT", "GE", "OR", "AND"}

StringOpcodes == {"CONCAT", "STRLEN", "GETCHAR"}

FunctionOpcodes == {"PARAM", "REF_PARAM", "CALL", "RETURN"}

MiscOpcodes == {"PRINT", "HALT", "UMINUS"}

HeapOpcodes == {"ALLOC_HEAP", "FREE_HEAP", "ADDR_OF", "DEREF_LOAD", "DEREF_STORE",
                "INDEX_LOAD", "INDEX_STORE"}

\* self.opcode_handlers.get(opcode) applied to instr, or NotImplementedError
Dispatch(s, instr) ==
    LET opcode == instr.opcode
    IN  CASE opcode \in AssignmentOpcodes -> _handle_assignment(s, instr)
          [] opcode \in ArithmeticOpcodes -> _handle_arithmetic(s, instr)
          [] opcode \in StringOpcodes     -> _handle_string(s, instr)
          [] opcode \in JumpOpcodes       -> _handle_jump(s, instr)
          [] opcode \in FunctionOpcodes   -> _handle_function(s, instr)
          [] opcode \in MiscOpcodes       -> _handle_misc(s, instr)
          [] opcode \in HeapOpcodes       -> _handle_heap(s, instr)
          [] OTHER -> Fail(s, "Unknown or unsupported opcode")

\* the except branch as it would be if it stopped the machine without
\* logging the error
FaultUnlogged(s, instr, exc) ==
    [s |-> [s EXCEPT !.running = FALSE], ret |-> FALSE]

\* the except branch of step: running = False, the error logged with the
\* instruction's line_num and self.pc as it is then, False returned
Fault(s, instr, exc) ==
    [s |-> _log_console([s EXCEPT !.running = FALSE],
                        [kind |-> "error", line |-> instr.line_num,
                         pc |-> s.pc, text |-> exc]),
     ret |-> FALSE]

\* step as it would be if a machine stopped by a runtime error retried the
\* instruction at pc
StepRetriesFault(s) ==
    IF \/ s.halted
       \/ s.pc >= Len(s.program)
       \/ ~s.running /\ s.console[Len(s.console)].kind # "error"
    THEN [s |-> [s EXCEPT !.running = FALSE], ret |-> FALSE]
    ELSE LET instr == s.program[s.pc + 1]
             r == Dispatch(s, instr)
         IN  IF r.exc # "" THEN Fault(r.s, instr, r.exc)
             ELSE IF ~r.s.running THEN [s |-> r.s, ret |-> FALSE]
             ELSE [s |-> r.s, ret |-> TRUE]

\* VM.step: [s, ret], the fields after the call and the value returned
step(s) ==
    IF ~s.running \/ s.halted \/ s.pc >= Len(s.program)
    THEN [s |-> [s EXCEPT !.running = FALSE], ret |-> FALSE]
    ELSE LET instr == s.program[s.pc + 1]
             r == Dispatch(s, instr)
         IN  IF r.exc # "" THEN Fault(r.s, instr, r.exc)
             ELSE IF ~r.s.running THEN [s |-> r.s, ret |-> FALSE]
             ELSE [s |-> r.s, ret |-> TRUE]

\* reset_state as it would be if it kept the global scope
ResetKeepsGlobals(s) ==
    [s EXCEPT !.pc = 0,
              !.heap = NoneList(HeapInit),
              !.free_heap_slots = Range(0, HeapInit),
              !.call_stack = <<>>, !.current_params = <<>>,
              !.running = FALSE, !.halted = FALSE,
              !.console = <<[kind |-> "banner"]>>]

\* VM.reset_state, with a console widget attached
reset_state(s) ==
    [s EXCEPT !.pc = 0, !.global_memory = EmptyDict,
              !.heap = NoneList(HeapInit),
              !.free_heap_slots = Range(0, HeapInit),
              !.call_stack = <<>>, !.current_params = <<>>,
              !.running = FALSE, !.halted = FALSE,
              !.console = <<[kind |-> "banner"]>>]

\* VM.__init__
NewVM ==
    reset_state([program |-> <<>>, labels |-> EmptyDict, pc |-> 0,
                 global_memory |-> EmptyDict, heap |-> <<>>,
                 free_heap_slots |-> <<>>, call_stack |-> <<>>,
                 current_params |-> <<>>, running |-> FALSE, halted |-> FALSE,
                 console |-> <<>>])

\* load_program as it would be if the state were reset only once the text
\* had been read without error
LoadResetsLate(s, tac_code_lines) ==
    LET loaded == load_program(tac_code_lines)
    IN  IF loaded.err # ""
        THEN [s |-> [s EXCEPT !.program = loaded.program,
                              !.labels = loaded.labels],
              err |-> loaded.err]
        ELSE [s |-> [reset_state(s) EXCEPT !.program = loaded.program,
                                           !.labels = loaded.labels,
                                           !.running = TRUE],
              err |-> ""]

\* VM.load_program: [s, err], the fields after the call and the error raised
Load(s, tac_code_lines) ==
    LET fresh == reset_state(s)
        loaded == load_program(tac_code_lines)
        installed == [fresh EXCEPT !.program = loaded.program,
                                   !.labels = loaded.labels]
    IN  IF loaded.err # "" THEN [s |-> installed, err |-> loaded.err]
        ELSE [s |-> [installed EXCEPT !.running = TRUE], err |-> ""]

-----------------------------------------------------------------------------
(* The controller's state file (controller.py: export_vm_state and         *)
(* import_vm_state).  A JSON document is written as the value json.load    *)
(* reads from it, except that an array is [t |-> "array", e |-> <<...>>];  *)
(* an object is a dict whose keys are str.                                 *)

\* the key json.dump writes for a dict key: a str stays, an int, float, bool
\* or None becomes its JSON text (no operand is a tuple, so no key is)
JsonKey(k) ==
    CASE k.t = "str"   -> k
      [] k.t = "int"   -> StrV(ToString(k.i))
      [] k.t = "bool"  -> StrV(IF k.b THEN "true" ELSE "false")
      [] k.t = "none"  -> StrV("null")
      [] OTHER         -> StrV(PyStr(k, FALSE))

\* what json.dump writes for a value: a tuple becomes an array
RECURSIVE JsonValue(_)
JsonValue(v) ==
    IF v.t \in {"tuple", "list"}
    THEN [t |-> "array", e |-> [k \in 1..Len(v.e) |-> JsonValue(v.e[k])]]
    ELSE v

\* what json.dump writes for a dict.  Where two keys have the same JSON
\* text the object holds both and json.load keeps the one inserted last;
\* a dict of the model keeps no order, and no program of the model binds
\* two such keys.
JsonObject(d) ==
    [j \in { JsonKey(k) : k \in DOMAIN d } |->
        JsonValue(d[CHOOSE k \in DOMAIN d : JsonKey(k) = j])]

\* what json.load builds for a value of the document: an array becomes a
\* list
RECURSIVE JsonLoadValue(_)
JsonLoadValue(j) ==
    IF j.t = "array"
    THEN ListV([k \in 1..Len(j.e) |-> JsonLoadValue(j.e[k])])
    ELSE j

\* what json.load builds for an object of the document
JsonLoadObject(o) == [k \in DOMAIN o |-> JsonLoadValue(o[k])]

\* {i: v for i, v in enumerate(self.vm.heap) if v is not None}
ActiveHeap(s) ==
    [a \in { IntV(k - 1) : k \in { x \in 1..Len(s.heap) : s.heap[x] # NoneV } } |->
        s.heap[a.i + 1]]

\* the vm_state dict export_vm_state builds
VmState(s) ==
    [pc |-> s.pc,
     global_memory |-> s.global_memory,
     call_stack |-> [k \in 1..Len(s.call_stack) |->
                        [func_name |-> s.call_stack[k].func_name,
                         return_address |-> s.call_stack[k].return_address,
                         return_var_name |-> s.call_stack[k].return_var_name,
                         locals |-> s.call_stack[k].locals,
                         params |-> s.call_stack[k].params]],
     heap |-> ActiveHeap(s)]

\* json.dump(vm_state, f): the document written
json_dump(vm_state) ==
    [pc |-> vm_state.pc,
     global_memory |-> JsonObject(vm_state.global_memory),
     call_stack |-> [k \in 1..Len(vm_state.call_stack) |->
                        [func_name |-> JsonValue(vm_state.call_stack[k].func_name),
                         return_address |-> vm_state.call_stack[k].return_address,
                         return_var_name |-> JsonValue(vm_state.call_stack[k].return_var_name),
                         locals |-> JsonObject(vm_state.call_stack[k].locals),
                         params |-> JsonObject(vm_state.call_stack[k].params)]],
     heap |-> JsonObject(vm_state.heap)]

\* json.load(f): the dict read from the document
json_load(doc) ==
    [pc |-> doc.pc,
     global_memory |-> JsonLoadObject(doc.global_memory),
     call_stack |-> [k \in 1..Len(doc.call_stack) |->
                        [func_name |-> JsonLoadValue(doc.call_stack[k].func_name),
                         return_address |-> doc.call_stack[k].return_address,
                         return_var_name |-> JsonLoadValue(doc.call_stack[k].return_var_name),
                         locals |-> JsonLoadObject(doc.call_stack[k].locals),
                         params |-> JsonLoadObject(doc.call_stack[k].params)]],
     heap |-> JsonLoadObject(doc.heap)]

\* AppController.export_vm_state: the document written to the file
export_vm_state(s) == json_dump(VmState(s))

\* the keys of the heap object whose int(addr_str) is addr
KeysOfAddr(active_heap_from_file, addr) ==
    { k \in DOMAIN active_heap_from_file : k.s = ToString(addr) }

\* the heap import_vm_state rebuilds: None everywhere, then the values of
\* the file at the addresses int(addr_str) that lie in the heap
RebuiltHeap(s, active_heap_from_file) ==
    [x \in 1..Len(s.heap) |->
        IF KeysOfAddr(active_heap_from_file, x - 1) # {}
        THEN active_heap_from_file[CHOOSE k \in KeysOfAddr(active_heap_from_file, x - 1) : TRUE]
        ELSE NoneV]

\* [i for i, v in enumerate(self.vm.heap) if v is None]
NoneIndices(heap) ==
    SelectSeq(Range(0, Len(heap)), LAMBDA a : heap[a + 1] = NoneV)

\* AppController.import_vm_state: the engine's fields after the call, given
\* the lines the controller holds and the document in the file
import_vm_state(s, current_3ac_lines, doc) ==
    IF current_3ac_lines = <<>> THEN s
    ELSE
      LET vm_state == json_load(doc)
          frames == [k \in 1..Len(vm_state.call_stack) |->
                       LET frame_data == vm_state.call_stack[k]
                       IN  [StackFrame(frame_data.func_name,
                                       frame_data.return_address,
                                       frame_data.return_var_name)
                              EXCEPT !.locals = frame_data.locals,
                                     !.params = frame_data.params]]
          rebuilt == RebuiltHeap(s, vm_state.heap)
      IN  [s EXCEPT !.pc = vm_state.pc,
                    !.global_memory = vm_state.global_memory,
                    !.call_stack = frames,
                    !.heap = rebuilt,
                    !.free_heap_slots = NoneIndices(rebuilt)]

-----------------------------------------------------------------------------
(* Source texts the engine is loaded with *)

\* the atoms of "OP a, b, c"
RECURSIVE OperandAtoms(_)
OperandAtoms(args) ==
    IF args = <<>> THEN <<>>
    ELSE IF Len(args) = 1 THEN <<args[1]>>
    ELSE <<args[1], ",", " ">> \o OperandAtoms(Tail(args))

Ins(op, args) == IF args = <<>> THEN <<op>> ELSE <<op, " ">> \o OperandAtoms(args)

\* the atoms of "name:"
Lbl(name) == <<name, ":">>

\* the programs of test_vm.py
TestPrograms ==
    { << Ins("ASSIGN", <<"x", "10">>), Ins("HALT", <<>>) >>,
      << Ins("JUMP", <<"my_label">>), Ins("HALT", <<>>), Lbl("my_label"),
         Ins("ASSIGN", <<"y", "20">>) >>,
      << Ins("JUMP", <<"non_existent_label">>) >>,
      << Ins("ASSIGN", <<"x", "100">>) >>,
      << Ins("ASSIGN", <<"a", "5">>), Ins("ADD", <<"res", "a", "3">>) >>,
      << Ins("DIV", <<"res", "10", "0">>) >>,
      << Ins("JUMP", <<"target">>), Ins("ASSIGN", <<"x", "1">>), Lbl("target"),
         Ins("ASSIGN", <<"y", "2">>) >>,
      << Ins("ASSIGN", <<"cond", "true">>), Ins("JUMPT", <<"target", "cond">>),
         Ins("ASSIGN", <<"x", "1">>), Lbl("target"), Ins("ASSIGN", <<"y", "2">>) >>,
      << Ins("ASSIGN", <<"cond", "false">>), Ins("JUMPF", <<"target", "cond">>),
         Ins("ASSIGN", <<"x", "1">>), Lbl("target"), Ins("ASSIGN", <<"y", "2">>) >>,
      << Ins("PARAM", <<"10">>), Ins("CALL", <<"my_func", "1", "result">>),
         Ins("HALT", <<>>), Lbl("my_func"), Ins("ADD", <<"temp", "ARG0", "5">>),
         Ins("RETURN", <<"temp">>) >>,
      << Ins("ALLOC_HEAP", <<"ptr", "1">>), Ins("DEREF_STORE", <<"ptr", "123">>),
         Ins("DEREF_LOAD", <<"val", "ptr">>) >> }

\* block sizes the heap programs allocate: small ones, and the whole heap
AllocSizes == {ToString(n) : n \in 1..MaxAlloc} \cup {ToString(HeapInit)}

\* allocate, store through the pointer, load it back; with and without
\* earlier allocations
HeapPrograms ==
    { << Ins("ALLOC_HEAP", <<"p", n>>), Ins("DEREF_STORE", <<"p", v>>),
         Ins("DEREF_LOAD", <<"x", "p">>) >> : n \in AllocSizes, v \in {"123", "true"} }
    \cup
    { << Ins("ALLOC_HEAP", <<"z", n>>), Ins("ALLOC_HEAP", <<"p", "1">>),
         Ins("DEREF_STORE", <<"p", "7">>), Ins("DEREF_LOAD", <<"x", "p">>) >> :
         n \in AllocSizes }

\* allocate A, free it, allocate twice more; after k earlier slots
ReusePrograms ==
    { << Ins("ALLOC_HEAP", <<"a", "1">>), Ins("FREE_HEAP", <<"a">>),
         Ins("ALLOC_HEAP", <<"b", "1">>), Ins("ALLOC_HEAP", <<"c", "1">>) >> }
    \cup
    { << Ins("ALLOC_HEAP", <<"z", n>>), Ins("ALLOC_HEAP", <<"a", "1">>),
         Ins("FREE_HEAP", <<"a">>), Ins("ALLOC_HEAP", <<"b", "1">>),
         Ins("ALLOC_HEAP", <<"c", "1">>) >> : n \in AllocSizes }

\* calls: by value and by reference, nested, with and without a return value
CallPrograms ==
    { << Ins("ASSIGN", <<"x", "3">>), Ins(p1, <<"x">>), Ins(p2, <<"7">>),
         Ins("CALL", <<"f", "2", "result">>), Ins("HALT", <<>>), Lbl("f"),
         Ins("ADD", <<"t", "ARG0", "ARG1">>), Ins("RETURN", <<"t">>) >> :
         p1 \in {"PARAM", "REF_PARAM"}, p2 \in {"PARAM"} }
    \cup
    { << Ins("CALL", <<"f", "0", "r">>), Ins("PRINT", <<"r">>), Lbl("f"),
         Ins("ASSIGN", <<"r", "1">>), Ins("RETURN", <<>>) >>,
      << Ins("PARAM", <<"10">>), Ins("CALL", <<"f", "1", "r">>), Ins("HALT", <<>>),
         Lbl("f"), Ins("ASSIGN", <<"u", "1">>), Ins("PARAM", <<"ARG0">>),
         Ins("CALL", <<"g", "1", "u">>), Ins("RETURN", <<"u">>),
         Lbl("g"), Ins("ADD", <<"t", "ARG0", "5">>), Ins("RETURN", <<"t">>) >>,
      << Ins("ASSIGN", <<"t", "9">>), Ins("PARAM", <<"1">>),
         Ins("CALL", <<"f", "2", "r">>), Lbl("f"), Ins("RETURN", <<"t">>) >>,
      << Ins("ASSIGN", <<"z", "0">>), Ins("CALL", <<"f", "0", "r">>),
         Ins("HALT", <<>>), Lbl("f"), Ins("ASSIGN", <<"res", "8">>),
         Ins("MOD", <<"res", "res", "z">>), Ins("RETURN", <<"res">>) >>,
      << Ins("CALL", <<"nowhere", "0", "r">>), Ins("HALT", <<>>) >>,
      << Ins("RETURN", <<"x">>) >> }

\* the operand texts of the arithmetic programs; u is never assigned
ArithOperands == {"10", "0", "-1", "2.5", "0.0", "false", "z", "u"}

\* res = 7 and z = 0, then one arithmetic instruction into res
ArithPrograms ==
    { << Ins("ASSIGN", <<"res", "7">>), Ins("ASSIGN", <<"z", "0">>),
         Ins(op, <<"res", x, y>>), Ins("PRINT", <<"res">>) >> :
         op \in {"DIV", "MOD"}, x \in ArithOperands, y \in ArithOperands }
    \cup
    { << Ins(op, <<"res", "3", "2">>) >> : op \in ArithmeticOpcodes }

\* texts that do not load
BadPrograms ==
    { << Ins("ASSIGN", <<"x", "1">>), Ins("JUMP", <<"nowhere">>) >>,
      << Lbl("a"), Ins("JUMP", <<"a">>), Ins("JUMPT", <<"b", "x">>) >>,
      << Lbl("a"), Ins("HALT", <<>>), <<"@", " ", "x">> >> }

\* one instruction that faults, after x = 1, outside a frame and inside one
FaultingInstructions ==
    { Ins("FOO", <<"x">>), Ins("ASSIGN", <<"x">>), Ins("ADD", <<"x", "x">>),
      Ins("ADD", <<"x", "x", "nothing">>), Ins("STRLEN", <<"x", "x">>),
      Ins("GETCHAR", <<"x", "x", "0">>), Ins("UMINUS", <<"x", "nothing">>),
      Ins("DEREF_LOAD", <<"x", "x">>), Ins("DEREF_STORE", <<"x", "x">>),
      Ins("INDEX_LOAD", <<"x", "x", "100">>), Ins("INDEX_STORE", <<"x", "-2", "x">>),
      Ins("INDEX_LOAD", <<"x", "nothing", "0">>),
      Ins("ALLOC_HEAP", <<"x", "0">>), Ins("ALLOC_HEAP", <<"x", "true">>),
      Ins("ALLOC_HEAP", <<"x", "nothing">>), Ins("PARAM", <<>>),
      Ins("CALL", <<"f", "x">>), Ins("CALL", <<"f", "1", "x">>),
      Ins("CALL", <<"f", "x", "x">>), Ins("CALL", <<"nowhere", "0", "x">>),
      Ins("ASSIGN", <<"5", "x">>), Ins("PRINT", <<>>), Ins("MOD", <<"x", "x", "0.0">>) }

FaultPrograms ==
    { << Ins("ASSIGN", <<"x", "1">>), bad, Ins("HALT", <<>>), Lbl("f"),
         Ins("RETURN", <<>>) >> : bad \in FaultingInstructions }
    \cup
    { << Ins("CALL", <<"f", "0", "r">>), Ins("HALT", <<>>), Lbl("f"),
         Ins("ASSIGN", <<"x", "1">>), bad, Ins("RETURN", <<>>) >> :
         bad \in FaultingInstructions }
    \cup
    { << Ins("CALL", <<"f", "0", "r">>), Ins("HALT", <<>>), Lbl("f"),
         Ins("CALL", <<"g", "0", "5">>), Ins("RETURN", <<>>), Lbl("g"),
         Ins("RETURN", <<"1">>) >>,
      << Ins("ASSIGN", <<"x", "1">>), Ins("RETURN", <<>>) >>,
      << Ins("ASSIGN", <<"x", "1">>), Ins("RETURN", <<"x">>) >>,
      << Ins("PARAM", <<"1">>), Ins("PARAM", <<"2">>), Ins("CALL", <<"f", "1", "r">>),
         Ins("HALT", <<>>), Lbl("f"), Ins("RETURN", <<>>) >>,
      << Ins("CALL", <<"f", "0", "r">>), Ins("HALT", <<>>), Lbl("f"),
         Ins("PARAM", <<"1">>), Ins("CALL", <<"f", "2", "r">>), Ins("RETURN", <<>>) >> }

\* reads of names that were never assigned, outside a frame and inside one
ReadPrograms ==
    { << Ins("ASSIGN", <<"y", "x">>), Ins("CALL", <<"f", "0", "r">>),
         Ins("HALT", <<>>), Lbl("f"), Ins("ASSIGN", <<"w", "q">>),
         Ins("ASSIGN", <<"y", "w">>), Ins("RETURN", <<"w">>) >>,
      << Ins("ASSIGN", <<"y", "3">>), Ins("ASSIGN", <<"y", "x">>),
         Ins("PRINT", <<"y">>) >> }

\* every opcode, executed without a fault; jumps taken and not taken
OpcodePrograms ==
    { << Ins("CONST_ASSIGN", <<"k", "4">>),
         <<"CONST_ASSIGN", " ", "s", ",", " ", "\"", "ab", "\"">>,
         Ins("CONCAT", <<"c", "s", "k">>), Ins("STRLEN", <<"n", "s">>),
         Ins("GETCHAR", <<"ch", "s", "-1">>), Ins("UMINUS", <<"m", "k">>),
         Ins("PRINT", <<"m">>), Ins("ADDR_OF", <<"p", "k">>),
         Ins("DEREF_LOAD", <<"v", "p">>), Ins("DEREF_STORE", <<"p", "9">>),
         Ins("ALLOC_HEAP", <<"h", "2">>), Ins("INDEX_STORE", <<"h", "1", "k">>),
         Ins("INDEX_LOAD", <<"w", "h", "1">>), Ins("FREE_HEAP", <<"h">>),
         Ins("FREE_HEAP", <<"h">>), Ins("FREE_HEAP", <<"5">>),
         Ins("FREE_HEAP", <<"150">>), Ins("FREE_HEAP", <<"s">>),
         Ins("REF_PARAM", <<"k">>), Ins("PARAM", <<"s">>),
         Ins("CALL", <<"f", "2", "r">>), Ins("JUMP", <<"end">>),
         Lbl("f"), Ins("DEREF_STORE", <<"ARG0", "8">>),
         Ins("ADDR_OF", <<"q", "ARG1">>), Ins("DEREF_LOAD", <<"r2", "q">>),
         Ins("RETURN", <<"r2">>), Lbl("end"), Ins("HALT", <<>>) >> }
    \cup
    { << Ins("ASSIGN", <<"cond", c>>), Ins(j, <<"over", "cond">>),
         Ins("ASSIGN", <<"x", "1">>), Lbl("over"), Ins("ASSIGN", <<"y", "2">>) >> :
         c \in {"true", "false", "0", "2.5", "nothing"}, j \in {"JUMPT", "JUMPF"} }

\* parameters pending while other instructions execute or fault
ParamPrograms ==
    { << Ins("PARAM", <<"1">>), Ins("ASSIGN", <<"y", "2">>), Ins("PRINT", <<"y">>),
         Ins("ALLOC_HEAP", <<"h", "1">>), Ins("FREE_HEAP", <<"h">>),
         Ins("JUMP", <<"go">>), Lbl("go"), Ins("CALL", <<"f", "1", "r">>),
         Ins("HALT", <<>>), Lbl("f"), Ins("RETURN", <<"ARG0">>) >>,
      << Ins("REF_PARAM", <<"x">>), Ins("FOO", <<"x">>) >> }

\* a variable passed by value twice and written after each PARAM
ByValuePrograms ==
    { << Ins("ASSIGN", <<"x", "3">>), Ins("PARAM", <<"x">>),
         Ins("ASSIGN", <<"x", "4">>), Ins("PARAM", <<"x">>),
         Ins("ASSIGN", <<"x", "5">>), Ins("CALL", <<"f", "2", "r">>),
         Ins("HALT", <<>>), Lbl("f"), Ins("SUB", <<"t", "ARG0", "ARG1">>),
         Ins("RETURN", <<"t">>) >> }

\* a jump to a label after the last instruction; a CALL that is the last
\* instruction, so that its RETURN lands after it
TrailingPrograms ==
    { << Ins("JUMP", <<"end">>), Ins("ASSIGN", <<"x", "1">>), Lbl("end") >>,
      << Ins("JUMP", <<"main">>), Lbl("f"), Ins("RETURN", <<"1">>),
         Lbl("main"), Ins("CALL", <<"f", "0", "r">>) >> }

\* a double-quoted string with a comma inside it
QuotedCommaPrograms ==
    { << <<"CONST_ASSIGN", " ", "s", ",", " ", "\"", "a", ",", "b", "\"">>,
         Ins("PRINT", <<"s">>) >> }

\* a slot freed twice, then allocations; a slot freed, stored into and
\* freed again
DoubleFreePrograms ==
    { << Ins("ALLOC_HEAP", <<"a", "1">>), Ins("FREE_HEAP", <<"a">>),
         Ins("FREE_HEAP", <<"a">>), Ins("ALLOC_HEAP", <<"b", "1">>),
         Ins("ALLOC_HEAP", <<"c", "1">>) >>,
      << Ins("ALLOC_HEAP", <<"a", "1">>), Ins("FREE_HEAP", <<"a">>),
         Ins("INDEX_STORE", <<"a", "0", "7">>), Ins("FREE_HEAP", <<"a">>),
         Ins("ALLOC_HEAP", <<"b", "1">>) >> }

\* the texts the state is exported from and imported into: values only,
\* pointers in the global scope, in a frame and in the heap, and a slot
\* allocated and left empty
PersistSources ==
    { << Ins("ASSIGN", <<"x", "3">>), Ins("ALLOC_HEAP", <<"h", "2">>),
         Ins("INDEX_STORE", <<"h", "1", "x">>), Ins("HALT", <<>>) >>,
      << Ins("CONST_ASSIGN", <<"k", "4">>), Ins("ADDR_OF", <<"p", "k">>),
         Ins("DEREF_LOAD", <<"v", "p">>), Ins("HALT", <<>>) >>,
      << Ins("ASSIGN", <<"x", "3">>), Ins("REF_PARAM", <<"x">>),
         Ins("CALL", <<"f", "1", "r">>), Ins("HALT", <<>>), Lbl("f"),
         Ins("DEREF_LOAD", <<"t", "ARG0">>), Ins("RETURN", <<"t">>) >>,
      << Ins("ASSIGN", <<"x", "3">>), Ins("PARAM", <<"x">>),
         Ins("CALL", <<"f", "1", "r">>), Ins("HALT", <<>>), Lbl("f"),
         Ins("ADD", <<"t", "ARG0", "1">>), Ins("RETURN", <<"t">>) >>,
      << Ins("ALLOC_HEAP", <<"h", "1">>), Ins("ADDR_OF", <<"p", "h">>),
         Ins("INDEX_STORE", <<"h", "0", "p">>), Ins("HALT", <<>>) >> }

\* ASSIGN target, literal: the line, with the literal given by its atoms
AssignLine(target, atoms) == <<"ASSIGN", " ", target, ",", " ">> \o atoms

\* the literals of every kind the Loader knows, as atoms
LiteralAtoms ==
    { <<"100">>, <<"-1">>, <<"2.5">>, <<"true">>, <<"False">>, <<"\"", "ab", "\"">> }

\* a literal of every kind assigned outside a frame and inside one, while a
\* variable named as the text of the string literal exists in each scope
LiteralPrograms ==
    { << AssignLine("x", lit), Ins("ASSIGN", <<"ab", "7">>), AssignLine("y", lit),
         Ins("CALL", <<"f", "0", "r">>), Ins("HALT", <<>>), Lbl("f"),
         AssignLine("v", lit), Ins("ASSIGN", <<"ab", "8">>), AssignLine("w", lit),
         Ins("RETURN", <<"w">>) >> : lit \in LiteralAtoms }

\* a callee that reads its by-reference and its by-value argument
RefReadPrograms ==
    { << Ins("ASSIGN", <<"x", "3">>), Ins("REF_PARAM", <<"x">>), Ins("PARAM", <<"x">>),
         Ins("CALL", <<"f", "2", "r">>), Ins("HALT", <<>>), Lbl("f"),
         Ins("ASSIGN", <<"t", "ARG0">>), Ins("ASSIGN", <<"u", "ARG1">>),
         Ins("PRINT", <<"ARG0">>), Ins("RETURN", <<"t">>) >> }

\* the instructions that write their first operand, t
WritingInstructions ==
    { Ins("ASSIGN", <<"t", "2">>), Ins("CONST_ASSIGN", <<"t", "2">>),
      Ins("ADD", <<"t", "k", "k">>), Ins("LT", <<"t", "k", "k">>),
      Ins("CONCAT", <<"t", "s", "k">>), Ins("STRLEN", <<"t", "s">>),
      Ins("GETCHAR", <<"t", "s", "0">>), Ins("UMINUS", <<"t", "k">>),
      Ins("ALLOC_HEAP", <<"t", "1">>), Ins("ADDR_OF", <<"t", "k">>),
      Ins("DEREF_LOAD", <<"t", "p">>), Ins("INDEX_LOAD", <<"t", "h", "0">>) }

\* every writing instruction outside a frame, and inside one while a global
\* of the target's name exists
ScopePrograms ==
    { << Ins("ASSIGN", <<"t", "1">>), Ins("CONST_ASSIGN", <<"k", "4">>),
         <<"CONST_ASSIGN", " ", "s", ",", " ", "\"", "ab", "\"">>,
         Ins("ALLOC_HEAP", <<"h", "1">>), Ins("INDEX_STORE", <<"h", "0", "k">>),
         Ins("ADDR_OF", <<"p", "k">>), write, Ins("CALL", <<"f", "0", "r">>),
         Ins("HALT", <<>>), Lbl("f"), write, Ins("RETURN", <<"t">>) >> :
         write \in WritingInstructions }

\* a pointer to a local taken in f and used in g, back in f, and after f
\* returned
LocalPointerPrograms ==
    { << Ins("CALL", <<"f", "0", "r">>), Ins("DEREF_LOAD", <<"v", "r">>),
         Ins("HALT", <<>>), Lbl("f"), Ins("ASSIGN", <<"y", "1">>),
         Ins("ADDR_OF", <<"p", "y">>), Ins("PARAM", <<"p">>),
         Ins("CALL", <<"g", "1", "r2">>), Ins("DEREF_LOAD", <<"a", "p">>),
         Ins("RETURN", <<"p">>), Lbl("g"), Ins("DEREF_LOAD", <<"v", "ARG0">>),
         Ins("DEREF_STORE", <<"ARG0", "9">>), Ins("DEREF_LOAD", <<"w", "ARG0">>),
         Ins("RETURN", <<"w">>) >>,
      << Ins("CALL", <<"f", "0", "r">>), Ins("DEREF_STORE", <<"r", "5">>),
         Ins("HALT", <<>>), Lbl("f"), Ins("ASSIGN", <<"y", "1">>),
         Ins("REF_PARAM", <<"y">>), Ins("CALL", <<"g", "1", "r2">>),
         Ins("ADDR_OF", <<"p", "y">>), Ins("RETURN", <<"p">>), Lbl("g"),
         Ins("ASSIGN", <<"y", "2">>), Ins("DEREF_LOAD", <<"v", "ARG0">>),
         Ins("DEREF_STORE", <<"ARG0", "9">>), Ins("RETURN", <<"v">>) >> }

\* DEREF_LOAD and DEREF_STORE through the global p, either one first, outside
\* a frame and inside one, with the slot 0 of the heap in use
PointerPrograms ==
    { << Ins("ASSIGN", <<"x", "3">>), Ins("ALLOC_HEAP", <<"h", "1">>),
         Ins("INDEX_STORE", <<"h", "0", "x">>) >> \o uses :
         uses \in
           { << Ins("DEREF_LOAD", <<"v", "p">>), Ins("DEREF_STORE", <<"p", "x">>),
                Ins("DEREF_LOAD", <<"w", "p">>) >>,
             << Ins("DEREF_STORE", <<"p", "x">>), Ins("DEREF_LOAD", <<"v", "p">>) >>,
             << Ins("CALL", <<"f", "0", "r">>), Ins("HALT", <<>>), Lbl("f"),
                Ins("ASSIGN", <<"y", "1">>), Ins("DEREF_LOAD", <<"v", "p">>),
                Ins("DEREF_STORE", <<"p", "y">>), Ins("RETURN", <<"v">>) >>,
             << Ins("CALL", <<"f", "0", "r">>), Ins("HALT", <<>>), Lbl("f"),
                Ins("ASSIGN", <<"y", "1">>), Ins("DEREF_STORE", <<"p", "y">>),
                Ins("DEREF_LOAD", <<"v", "p">>), Ins("RETURN", <<"v">>) >> } }

\* sizes that are no positive integer, for a target that is bound already
BadSizes == {"0", "-1", "false", "2.5", "nothing", "s", "p"}

BadSizePrograms ==
    { << Ins("ASSIGN", <<"t", "1">>),
         <<"CONST_ASSIGN", " ", "s", ",", " ", "\"", "ab", "\"">>,
         Ins("ADDR_OF", <<"p", "t">>), Ins("ALLOC_HEAP", <<"a", "1">>),
         Ins("INDEX_STORE", <<"a", "0", "t">>), Ins("ALLOC_HEAP", <<"t", n>>) >> :
         n \in BadSizes }

\* blocks taken from a free-list that ends in a freed index, and blocks that
\* make the heap grow, by one batch and by two
BlockPrograms ==
    { << Ins("ALLOC_HEAP", <<"z", "99">>), Ins("FREE_HEAP", <<"z">>),
         Ins("ALLOC_HEAP", <<"c", "2">>), Ins("INDEX_STORE", <<"c", "1", "7">>) >>,
      << Ins("ALLOC_HEAP", <<"z", "99">>), Ins("ALLOC_HEAP", <<"c", "3">>),
         Ins("INDEX_STORE", <<"c", "2", "7">>), Ins("FREE_HEAP", <<"c">>),
         Ins("ALLOC_HEAP", <<"d", "true">>) >>,
      << Ins("ALLOC_HEAP", <<"z", "99">>), Ins("ALLOC_HEAP", <<"c", "52">>),
         Ins("ALLOC_HEAP", <<"d", "1">>), Ins("FREE_HEAP", <<"c">>),
         Ins("ALLOC_HEAP", <<"a", "1">>) >> }

\* FREE_HEAP of addresses that are no index of the heap, with a slot in use
FreeInvalidPrograms ==
    { << Ins("ALLOC_HEAP", <<"a", "1">>), Ins("INDEX_STORE", <<"a", "0", "7">>),
         <<"CONST_ASSIGN", " ", "s", ",", " ", "\"", "ab", "\"">>,
         Ins("ADDR_OF", <<"p", "a">>), Ins("FREE_HEAP", <<bad>>),
         Ins("INDEX_LOAD", <<"v", "a", "0">>) >> :
         bad \in {"-1", "100", "2.5", "0.0", "false", "nothing", "s", "p"} }

\* every text the engine specification loads
Sources ==
    TestPrograms \cup HeapPrograms \cup ReusePrograms \cup CallPrograms
    \cup ArithPrograms \cup BadPrograms \cup FaultPrograms \cup ReadPrograms
    \cup OpcodePrograms \cup ParamPrograms \cup ByValuePrograms
    \cup QuotedCommaPrograms \cup TrailingPrograms
    \cup DoubleFreePrograms
    \cup LiteralPrograms \cup RefReadPrograms \cup ScopePrograms
    \cup LocalPointerPrograms \cup BadSizePrograms \cup BlockPrograms
    \cup FreeInvalidPrograms

-----------------------------------------------------------------------------
(* The state *)

VARIABLES program, labels, pc, global_memory, heap, free_heap_slots,
          call_stack, current_params, running, halted, console,
          tac_code_lines, last, prev, saved

\* tac_code_lines: the lines last given to load_program
\* last: the last call made on the engine and what it returned or raised;
\*       for a load, also what state it was made over
\* prev: the engine's fields before the last step or import (NoneV after a
\*       load)
\* saved: the document in the state file (NoneV while none was written)

vars == <<program, labels, pc, global_memory, heap, free_heap_slots,
          call_stack, current_params, running, halted, console,
          tac_code_lines, last, prev, saved>>

\* the engine's fields as one record
Cur ==
    [program |-> program, labels |-> labels, pc |-> pc,
     global_memory |-> global_memory, heap |-> heap,
     free_heap_slots |-> free_heap_slots, call_stack |-> call_stack,
     current_params |-> current_params, running |-> running,
     halted |-> halted, console |-> console]

\* the engine's fields become those of s
Becomes(s) ==
    /\ program' = s.program
    /\ labels' = s.labels
    /\ pc' = s.pc
    /\ global_memory' = s.global_memory
    /\ heap' = s.heap
    /\ free_heap_slots' = s.free_heap_slots
    /\ call_stack' = s.call_stack
    /\ current_params' = s.current_params
    /\ running' = s.running
    /\ halted' = s.halted
    /\ console' = s.console

\* a VM has been constructed; nothing is loaded
Init ==
    /\ program = NewVM.program
    /\ labels = NewVM.labels
    /\ pc = NewVM.pc
    /\ global_memory = NewVM.global_memory
    /\ heap = NewVM.heap
    /\ free_heap_slots = NewVM.free_heap_slots
    /\ call_stack = NewVM.call_stack
    /\ current_params = NewVM.current_params
    /\ running = NewVM.running
    /\ halted = NewVM.halted
    /\ console = NewVM.console
    /\ tac_code_lines = <<>>
    /\ last = [op |-> "init"]
    /\ prev = NoneV
    /\ saved = NoneV

\* what a load is made over: whether the engine has stepped since it was
\* built or loaded, its flags, and which of its stores are in use
Over ==
    [stepped |-> last.op = "step", running |-> running, halted |-> halted,
     globals |-> global_memory # EmptyDict, frames |-> call_stack # <<>>,
     params |-> current_params # <<>>, grown |-> Len(heap) > HeapInit,
     allocated |-> Len(free_heap_slots) < Len(heap)]

\* vm.load_program(lines)
LoadProgram(lines) ==
    \E r \in {Load(Cur, lines)} :
        /\ Becomes(r.s)
        /\ tac_code_lines' = lines
        /\ last' = [op |-> "load", err |-> r.err, over |-> Over]
        /\ prev' = NoneV
        /\ UNCHANGED saved

\* the texts loaded over an engine that was loaded before: fewer, to bound
\* the graph
ReloadSources == TestPrograms \cup BadPrograms

\* vm.load_program on one of the texts, from any state
LoadSource ==
    \E lines \in (IF last.op = "init" THEN Sources ELSE ReloadSources) :
        LoadProgram(lines)

\* vm.step(), from any state
Step ==
    \E r \in {step(Cur)} :
        /\ Becomes(r.s)
        /\ last' = [op |-> "step", ret |-> r.ret]
        /\ prev' = Cur
        /\ UNCHANGED <<tac_code_lines, saved>>

Next == LoadSource \/ Step

Spec == Init /\ [][Next]_vars

-----------------------------------------------------------------------------
(* The Loader on its own: every text of up to MaxLines lines over a small  *)
(* alphabet of lines is given to load_program and then run.                *)

LoaderLines ==
    { Lbl("a"), Lbl("b"), Lbl("1"),
      Ins("JUMP", <<"a">>), Ins("JUMPF", <<"b", "c">>), Ins("JUMP", <<"1">>),
      Ins("HALT", <<>>),
      <<"#", " ", "c">>,
      <<"@", " ", "x">> }

LoaderTexts == UNION { [1..n -> LoaderLines] : n \in 1..MaxLines }

\* a VM has been constructed and a text chosen
InitLoader ==
    /\ program = NewVM.program
    /\ labels = NewVM.labels
    /\ pc = NewVM.pc
    /\ global_memory = NewVM.global_memory
    /\ heap = NewVM.heap
    /\ free_heap_slots = NewVM.free_heap_slots
    /\ call_stack = NewVM.call_stack
    /\ current_params = NewVM.current_params
    /\ running = NewVM.running
    /\ halted = NewVM.halted
    /\ console = NewVM.console
    /\ tac_code_lines \in LoaderTexts
    /\ last = [op |-> "init"]
    /\ prev = NoneV
    /\ saved = NoneV

\* vm.load_program on the chosen text (again, for a reset)
LoadChosen == LoadProgram(tac_code_lines)

NextLoader == LoadChosen \/ Step

LoaderSpec == InitLoader /\ [][NextLoader]_vars

-----------------------------------------------------------------------------
(* Export and import of the state: a text is loaded once, and the state is *)
(* stepped, exported to the file and imported from it in any order.        *)

\* controller.load_file on one of the texts, on the new engine
LoadPersist ==
    /\ last.op = "init"
    /\ \E lines \in PersistSources : LoadProgram(lines)

\* controller.export_vm_state(): the file is written, the engine is only
\* read
Export ==
    /\ saved' = export_vm_state(Cur)
    /\ UNCHANGED <<program, labels, pc, global_memory, heap, free_heap_slots,
                   call_stack, current_params, running, halted, console,
                   tac_code_lines, last, prev>>

\* controller.import_vm_state() of the file
Import ==
    /\ saved # NoneV
    /\ Len(current_params) < MaxPending
    /\ \E s \in {import_vm_state(Cur, tac_code_lines, saved)} :
           /\ Becomes(s)
           /\ last' = [op |-> "import"]
           /\ prev' = Cur
           /\ UNCHANGED <<tac_code_lines, saved>>

NextPersist == LoadPersist \/ Step \/ Export \/ Import

PersistSpec == Init /\ [][NextPersist]_vars

-----------------------------------------------------------------------------
(* The pointer operators on their own: _get_value_from_pointer and         *)
(* _set_value_at_pointer are applied, by DEREF_LOAD and DEREF_STORE, to a  *)
(* value of every shape and kind they tell apart.  The programs of Spec    *)
(* can only make pointers of the kinds global and local (ADDR_OF and       *)
(* REF_PARAM, through _get_variable_address), so the value is bound to the *)
(* global p on the loaded engine, as a host holding the VM object can.     *)

\* the locations of the pointers: heap indices below, at and beyond the
\* ends of the new heap, names, and None
PointerLocations ==
    {IntV(0 - 1), IntV(0), IntV(HeapInit - 1), IntV(HeapInit), BoolV(TRUE),
     StrV("x"), StrV("y"), NoneV}

\* the values dereferenced: pairs of every kind and of an unknown kind, and
\* values that are no pair
PointerValues ==
    { TupV(<<kind, location>>) :
        kind \in PointerKinds \cup {StrV("stack")}, location \in PointerLocations }
      \cup {NoneV, IntV(0), StrV("heap"), TupV(<<>>), TupV(<<StrV("heap")>>),
            TupV(<<StrV("heap"), IntV(0), IntV(0)>>)}

\* a VM has been constructed, a program loaded into it, and p bound
InitPointer ==
    \E lines \in PointerPrograms, pointer \in PointerValues :
        LET loaded == Load(NewVM, lines).s
        IN  /\ program = loaded.program
            /\ labels = loaded.labels
            /\ pc = loaded.pc
            /\ global_memory = DictSet(loaded.global_memory, StrV("p"), pointer)
            /\ heap = loaded.heap
            /\ free_heap_slots = loaded.free_heap_slots
            /\ call_stack = loaded.call_stack
            /\ current_params = loaded.current_params
            /\ running = loaded.running
            /\ halted = loaded.halted
            /\ console = loaded.console
            /\ tac_code_lines = lines
            /\ last = [op |-> "load", err |-> ""]
            /\ prev = NoneV
            /\ saved = NoneV

NextPointer == Step

PointerSpec == InitPointer /\ [][NextPointer]_vars

-----------------------------------------------------------------------------
(* Vocabulary of the properties *)

\* the last call was a step that executed an instruction
Executed ==
    /\ last.op = "step"
    /\ prev.running /\ ~prev.halted /\ prev.pc < Len(prev.program)

\* the instruction the last step executed
ExecutedInstr == prev.program[prev.pc + 1]

\* the last step executed an instruction with this opcode
Did(opcode) == Executed /\ ExecutedInstr.opcode = opcode

\* the last step ended in the except branch: it logged a runtime error
Faulted ==
    /\ Executed
    /\ Len(console) = Len(prev.console) + 1
    /\ console[Len(console)].kind = "error"

\* the message of the runtime error the last step logged
FaultText == console[Len(console)].text

\* the last step executed the instruction at index k (from 0) of the program
DidAt(k) == Executed /\ prev.pc = k

\* a variable's value as an operand reads it now
ValueOf(name) == _get_operand_value(Cur, StrV(name))

\* the scopes a variable write can reach: the global scope and every frame
Scopes(s) == [global_memory |-> s.global_memory, call_stack |-> s.call_stack]

-----------------------------------------------------------------------------
(* C1: heap store/load round trip *)

\* the program has, from index k (from 0), ALLOC_HEAP p,n with a literal
\* n >= 1, DEREF_STORE p,v with a literal v, and DEREF_LOAD x,p
RoundTripAt(k) ==
    /\ k + 3 <= Len(program)
    /\ LET alloc == program[k + 1]
           store == program[k + 2]
           load  == program[k + 3]
       IN  /\ alloc.opcode = "ALLOC_HEAP" /\ Len(alloc.operands) = 2
           /\ store.opcode = "DEREF_STORE" /\ Len(store.operands) = 2
           /\ load.opcode = "DEREF_LOAD" /\ Len(load.operands) = 2
           /\ alloc.operands[2].t = "int" /\ alloc.operands[2].i >= 1
           /\ IsStr(alloc.operands[1])
           /\ store.operands[1] = alloc.operands[1]
           /\ load.operands[2] = alloc.operands[1]
           /\ ~IsStr(store.operands[2])
           /\ IsStr(load.operands[1])

\* C1: in a program that executes ALLOC_HEAP p,n (n >= 1), DEREF_STORE p,v,
\* DEREF_LOAD x,p, none of the three steps faults, the heap slot at the index
\* bound to p holds v after the store, and x holds v after the load.
C1_RoundTrip ==
    \A k \in 0..(Len(program) - 3) :
        RoundTripAt(k) =>
            LET p == program[k + 1].operands[1]
                v == program[k + 2].operands[2]
                x == program[k + 3].operands[1]
            IN  /\ (DidAt(k) \/ DidAt(k + 1) \/ DidAt(k + 2)) => ~Faulted
                /\ DidAt(k + 1) =>
                       /\ IsInt(_get_operand_value(Cur, p))
                       /\ heap[IntVal(_get_operand_value(Cur, p)) + 1] = v
                /\ DidAt(k + 2) => _get_operand_value(Cur, x) = v

-----------------------------------------------------------------------------
(* C2: heap reuse after free *)

\* the program has, from index k (from 0), ALLOC_HEAP a,1, FREE_HEAP a and
\* two more single-slot allocations into other variables, and only
\* allocations before them
ReuseAt(k) ==
    /\ k + 4 <= Len(program)
    /\ \A j \in 1..k : program[j].opcode = "ALLOC_HEAP"
    /\ LET first == program[k + 1]
           free  == program[k + 2]
           one   == program[k + 3]
           two   == program[k + 4]
       IN  /\ first.opcode = "ALLOC_HEAP" /\ first.operands = <<StrV("a"), IntV(1)>>
           /\ free.opcode = "FREE_HEAP" /\ free.operands = <<StrV("a")>>
           /\ one.opcode = "ALLOC_HEAP" /\ one.operands = <<StrV("b"), IntV(1)>>
           /\ two.opcode = "ALLOC_HEAP" /\ two.operands = <<StrV("c"), IntV(1)>>

-----------------------------------------------------------------------------
(* C3: what CALL does *)

\* the last step executed CALL label,n,ret with exactly n pending parameters
\* and a label of the program
CallCase ==
    /\ Did("CALL")
    /\ Len(ExecutedInstr.operands) = 3
    /\ IsInt(ExecutedInstr.operands[2])
    /\ Len(prev.current_params) = IntVal(ExecutedInstr.operands[2])
    /\ IsStr(ExecutedInstr.operands[1])
    /\ ExecutedInstr.operands[1].s \in DOMAIN prev.labels

\* C3: CALL label,n,ret executed at program counter p with exactly n pending
\* parameters pushes exactly one new frame whose return address is p+1 and
\* whose return-variable name is ret, binds the i-th pending entry to ARGi
\* in the frame's params and in its locals, leaves the pending-parameter
\* buffer empty and sets the program counter to the index of label.
C3_CallPushesFrame ==
    CallCase =>
        LET label == ExecutedInstr.operands[1]
            n     == IntVal(ExecutedInstr.operands[2])
            ret   == ExecutedInstr.operands[3]
        IN  /\ ~Faulted
            /\ Len(call_stack) = Len(prev.call_stack) + 1
            /\ Front(call_stack) = prev.call_stack
            /\ Last(call_stack).return_address = prev.pc + 1
            /\ Last(call_stack).return_var_name = ret
            /\ \A i \in 0..(n - 1) :
                   /\ ArgName(i) \in DOMAIN Last(call_stack).params
                   /\ Last(call_stack).params[ArgName(i)] = prev.current_params[i + 1]
                   /\ ArgName(i) \in DOMAIN Last(call_stack).locals
                   /\ Last(call_stack).locals[ArgName(i)] = prev.current_params[i + 1]
            /\ current_params = <<>>
            /\ pc = prev.labels[label.s]

\* a CALL with a pending parameter, made from inside a frame
C3_Witness ==
    /\ CallCase
    /\ Len(prev.current_params) >= 1
    /\ Len(call_stack) = 2

-----------------------------------------------------------------------------
(* C4: what RETURN does *)

\* the last step executed RETURN with a frame on the call stack
ReturnCase == Did("RETURN") /\ prev.call_stack # <<>>

\* what RETURN's operand reads in the callee's scope, before the pop
ReturnedValue ==
    IF ExecutedInstr.operands # <<>>
    THEN _get_operand_value(prev, ExecutedInstr.operands[1])
    ELSE NoneV

\* C4: RETURN v with a non-empty call stack evaluates v in the callee's
\* scope, pops exactly the top frame, sets the program counter to that
\* frame's return address and writes the value under the frame's
\* return-variable name into the caller's scope: the new top frame's locals
\* if a frame remains, otherwise the global scope.
C4_ReturnWritesCaller ==
    ReturnCase =>
        LET old_frame == TopFrame(prev)
            name == old_frame.return_var_name
            rest == Front(prev.call_stack)
        IN  /\ ~Faulted
            /\ pc = old_frame.return_address
            /\ IF rest # <<>>
               THEN /\ call_stack =
                          [rest EXCEPT ![Len(rest)].locals = DictSet(@, name, ReturnedValue)]
                    /\ global_memory = prev.global_memory
               ELSE /\ call_stack = <<>>
                    /\ global_memory = DictSet(prev.global_memory, name, ReturnedValue)

\* a RETURN of a callee's local into the frame of its caller
C4_Witness ==
    /\ ReturnCase
    /\ call_stack # <<>>
    /\ ReturnedValue # NoneV
    /\ ReturnedValue # _get_operand_value(Cur, ExecutedInstr.operands[1])

-----------------------------------------------------------------------------
(* C5: division and modulo by zero *)

\* the last step executed opcode t,a,b and b resolved to zero
ZeroDivisor(opcode) ==
    /\ Did(opcode)
    /\ Len(ExecutedInstr.operands) = 3
    /\ PyEq(_get_operand_value(prev, ExecutedInstr.operands[3]), IntV(0))

\* C5: DIV or MOD whose second resolved operand is zero makes the step
\* return false, sets running to false, writes nothing to any variable, and
\* appends to the console an error with "Division by zero" (DIV) or
\* "Modulo by zero" (MOD).
C5_ZeroDivisorFaults ==
    \A opcode \in {"DIV", "MOD"} :
        ZeroDivisor(opcode) =>
            /\ last.ret = FALSE
            /\ ~running
            /\ Scopes(Cur) = Scopes(prev)
            /\ heap = prev.heap
            /\ Faulted
            /\ FaultText = (IF opcode = "DIV" THEN "Division by zero"
                            ELSE "Modulo by zero")

\* a MOD by a variable that holds zero, into a variable that has a value,
\* inside a frame
C5_Witness ==
    /\ ZeroDivisor("MOD")
    /\ IsStr(ExecutedInstr.operands[3])
    /\ call_stack # <<>>
    /\ _get_operand_value(Cur, ExecutedInstr.operands[1]) # NoneV

-----------------------------------------------------------------------------
(* The source text as the Loader's contract reads it, line by line *)

\* the line is blank or a comment
IsSkipped(line) == Strip(line) = <<>> \/ Head(Strip(line)) = "#"

\* the line defines a label, and the label's name
IsLabelLine(line) == ~IsSkipped(line) /\ Last(Strip(line)) = ":"

LabelName(line) == Text(Front(Strip(line)))

\* the line is neither skipped nor a label: it is to be an instruction
IsInstrLine(line) == ~IsSkipped(line) /\ ~IsLabelLine(line)

\* the line does not match (\w+)\s*(.*)
IsMalformed(line) == IsInstrLine(line) /\ ~IsWordAtom(Head(Strip(line)))

\* the line is a JUMP, JUMPT or JUMPF
IsJumpLine(line) ==
    IsInstrLine(line) /\ ~IsMalformed(line)
    /\ Upper(Head(Strip(line))) \in JumpOpcodes

\* the atoms of a jump line's first operand, and the name they spell
JumpOperand(line) == Strip(SplitComma(Strip(Tail(Strip(line))), <<>>)[1])

JumpName(line) == Text(JumpOperand(line))

\* the index of the next instruction emitted after line i: the number of
\* instruction lines before it
InstrBefore(lines, i) == Cardinality({j \in 1..(i - 1) : IsInstrLine(lines[j])})

\* the lines that define the label
DefLines(lines, name) ==
    {d \in 1..Len(lines) : IsLabelLine(lines[d]) /\ LabelName(lines[d]) = name}

LastOf(S) == CHOOSE x \in S : \A y \in S : y <= x

JumpLines(lines) == {j \in 1..Len(lines) : IsJumpLine(lines[j])}

\* the jumps that name a label defined on a later line
ForwardJumps(lines) ==
    {j \in JumpLines(lines) : \E d \in DefLines(lines, JumpName(lines[j])) : d > j}

\* no line is malformed and every jump names a label the text defines
Resolvable(lines) ==
    /\ \A i \in 1..Len(lines) : ~IsMalformed(lines[i])
    /\ \A j \in JumpLines(lines) : DefLines(lines, JumpName(lines[j])) # {}

\* the label's name has the form of a literal: the operand classifier takes
\* it for a value, not a name
LiteralName(line) == _parse_operand_value(JumpOperand(line)) # StrV(JumpName(line))

\* the first operand of the instruction emitted for line j is the index
\* recorded for the label the line names: that of its last definition
ResolvedAt(lines, j) ==
    program[InstrBefore(lines, j) + 1].operands[1] =
        IntV(InstrBefore(lines, LastOf(DefLines(lines, JumpName(lines[j])))))

-----------------------------------------------------------------------------
(* C6: forward references *)

\* C6 as stated: for every program (otherwise loadable) in which a jump
\* names a label defined on a later line, load_program succeeds and the
\* jump's first operand is the instruction index recorded for the label.
C6_ForwardResolves ==
    (last.op = "load" /\ Resolvable(tac_code_lines)) =>
        \A j \in ForwardJumps(tac_code_lines) :
            last.err = "" /\ ResolvedAt(tac_code_lines, j)

\* C6 as amended: the same, for programs whose jumps name labels that do not
\* have the form of a literal.
C6_ForwardResolvesNames ==
    (/\ last.op = "load"
     /\ Resolvable(tac_code_lines)
     /\ \A j \in JumpLines(tac_code_lines) : ~LiteralName(tac_code_lines[j])) =>
        /\ last.err = ""
        /\ \A j \in ForwardJumps(tac_code_lines) : ResolvedAt(tac_code_lines, j)

\* a text was loaded in which a jump names a label defined on a later line,
\* before the last instruction
C6_Witness ==
    /\ last.op = "load" /\ last.err = ""
    /\ \E j \in ForwardJumps(tac_code_lines) :
           LET t == program[InstrBefore(tac_code_lines, j) + 1].operands[1]
           IN  IsInt(t) /\ InstrBefore(tac_code_lines, j) < IntVal(t)
                        /\ IntVal(t) < Len(program)

-----------------------------------------------------------------------------
(* C7: undefined labels *)

\* C7: loading a program (without malformed lines) in which some jump names
\* a label defined nowhere fails with the undefined-label error, and
\* afterwards the engine has no program installed.
C7_UndefinedLabelInstallsNothing ==
    (/\ last.op = "load"
     /\ \A i \in 1..Len(tac_code_lines) : ~IsMalformed(tac_code_lines[i])
     /\ \E j \in JumpLines(tac_code_lines) :
            DefLines(tac_code_lines, JumpName(tac_code_lines[j])) = {}) =>
        /\ last.err = "undefined_label"
        /\ program = <<>>

-----------------------------------------------------------------------------
(* C8: jump targets *)

\* C8: after every successful load, the first operand of every JUMP, JUMPT
\* and JUMPF is an integer t with 0 <= t < the number of instructions.
C8_JumpTargetsValid ==
    (last.op = "load" /\ last.err = "") =>
        \A k \in 1..Len(program) :
            program[k].opcode \in JumpOpcodes =>
                /\ IsInt(program[k].operands[1])
                /\ 0 <= IntVal(program[k].operands[1])
                /\ IntVal(program[k].operands[1]) < Len(program)

-----------------------------------------------------------------------------
(* C9: load replaces the state *)

\* C9: after any sequence of steps, a successful load_program leaves the
\* engine with pc = 0, an empty global scope, an empty call stack, an empty
\* pending-parameter buffer, a fresh heap with every slot absent and every
\* index free, halted = false and running = true.
C9_LoadReplacesState ==
    (last.op = "load" /\ last.err = "") =>
        /\ pc = 0
        /\ global_memory = EmptyDict
        /\ call_stack = <<>>
        /\ current_params = <<>>
        /\ Len(heap) = HeapInit
        /\ \A k \in 1..Len(heap) : heap[k] = NoneV
        /\ free_heap_slots = Range(0, Len(heap))
        /\ ~halted
        /\ running

\* a successful load over an engine that had stepped into a fault with a
\* global bound and a heap slot allocated
C9_Witness ==
    /\ last.op = "load" /\ last.err = ""
    /\ last.over.stepped /\ ~last.over.running /\ ~last.over.halted
    /\ last.over.globals /\ last.over.allocated

-----------------------------------------------------------------------------
(* C10: what step returns *)

\* C10: step() returns true if and only if, after the call, running is true
\* and pc is the index of an instruction of the program.
C10_StepReturnsMore ==
    last.op = "step" => (last.ret = TRUE <=> (running /\ pc < Len(program)))

-----------------------------------------------------------------------------
(* C11: faults are caught by step *)

\* the handler of the instruction the last step executed raised
HandlerRaised == Executed /\ Dispatch(prev, ExecutedInstr).exc # ""

\* C11: a fault raised by a handler is caught inside step: it is logged to
\* the console with the instruction's source line and the program counter
\* of the faulting instruction, step returns false, running becomes false
\* and halted stays false.
C11_FaultsAreCaught ==
    HandlerRaised =>
        /\ last.ret = FALSE
        /\ ~running
        /\ ~halted
        /\ Faulted
        /\ Last(console).line = ExecutedInstr.line_num
        /\ Last(console).pc = prev.pc

-----------------------------------------------------------------------------
(* C12: the flags of a stopped machine *)

\* a runtime error has been logged since the load
FaultLogged == \E k \in 1..Len(console) : console[k].kind = "error"

\* C12: running = false with halted = false is reached only through a
\* runtime fault, never by a program that finished normally.
C12_FlagsTellFaults ==
    (last.op = "step" /\ ~running /\ ~halted) => FaultLogged

-----------------------------------------------------------------------------
(* C13: a stopped machine stays stopped *)

\* C13: once running is false, every further step() returns false, executes
\* no instruction and leaves every field of the engine as it was; running is
\* true only after a successful load or a step made while it was true.
C13_StoppedIsAbsorbing ==
    /\ (last.op = "step" /\ ~prev.running) => (last.ret = FALSE /\ Cur = prev)
    /\ running => \/ last.op = "load" /\ last.err = ""
                  \/ last.op = "step" /\ prev.running

\* a step on a machine that stopped in a fault inside a frame, with
\* instructions left
C13_Witness ==
    /\ last.op = "step"
    /\ ~prev.running /\ ~prev.halted
    /\ prev.pc < Len(prev.program)
    /\ prev.call_stack # <<>>

-----------------------------------------------------------------------------
(* C14: reads of unassigned names *)

\* the name is bound neither in the top frame nor in the global scope
Unbound(s, name) ==
    /\ name \notin DOMAIN s.global_memory
    /\ s.call_stack # <<>> =>
           /\ name \notin DOMAIN TopFrame(s).locals
           /\ name \notin DOMAIN TopFrame(s).params

\* the last step executed ASSIGN y, x with names y and x, x unbound
UnboundRead ==
    /\ Did("ASSIGN")
    /\ Len(ExecutedInstr.operands) = 2
    /\ IsStr(ExecutedInstr.operands[1])
    /\ IsStr(ExecutedInstr.operands[2])
    /\ Unbound(prev, ExecutedInstr.operands[2])

\* C14: with or without an active frame, ASSIGN y, x for an unassigned x
\* completes successfully, binds y to absent and advances the program
\* counter.
C14_UnboundReadsAbsent ==
    UnboundRead =>
        LET y == ExecutedInstr.operands[1]
        IN  /\ ~Faulted
            /\ last.ret = TRUE
            /\ pc = prev.pc + 1
            /\ IF call_stack # <<>>
               THEN y \in DOMAIN TopFrame(Cur).locals /\ TopFrame(Cur).locals[y] = NoneV
               ELSE y \in DOMAIN global_memory /\ global_memory[y] = NoneV

\* an unassigned name was read inside a frame
C14_Witness == UnboundRead /\ call_stack # <<>>

-----------------------------------------------------------------------------
(* C15: export and import of the state *)

\* the last call imported the document that an export of the state just
\* before it writes
ImportedOwnExport ==
    /\ last.op = "import"
    /\ tac_code_lines # <<>>
    /\ saved = export_vm_state(prev)

\* the heap addresses that have an entry in the heap object of the file
AddressesInFile ==
    { a \in 0..(Len(heap) - 1) : KeysOfAddr(saved.heap, a) # {} }

\* C15: exporting the state and importing the exported record into the same
\* engine reproduces an identical program counter, global scope, call stack
\* (names, return addresses, return variables, locals, params) and heap,
\* and the free-list after the import is exactly the set of heap indices
\* that are not in the exported sparse heap map.
C15_ExportImportRoundTrip ==
    ImportedOwnExport =>
        /\ pc = prev.pc
        /\ global_memory = prev.global_memory
        /\ call_stack = prev.call_stack
        /\ heap = prev.heap
        /\ Elems(free_heap_slots) = (0..(Len(heap) - 1)) \ AddressesInFile

-----------------------------------------------------------------------------
(* C16: the pending-parameter buffer *)

\* the last step executed a CALL that pushed its frame and jumped
CallSucceeded == Did("CALL") /\ ~Faulted /\ last.ret = TRUE

\* C16: every successful CALL leaves the pending-parameter buffer empty, a
\* load leaves it empty, and a step that executes no PARAM, REF_PARAM or
\* CALL leaves it as it was; so the buffer is non-empty only after a
\* PARAM/REF_PARAM executed since the last successful CALL or load.
C16_BufferDiscipline ==
    /\ CallSucceeded => current_params = <<>>
    /\ last.op \in {"init", "load"} => current_params = <<>>
    /\ (last.op = "step"
        /\ ~(Executed /\ ExecutedInstr.opcode \in {"PARAM", "REF_PARAM", "CALL"}))
           => current_params = prev.current_params

\* a CALL consumed a non-empty buffer
C16_Witness == CallSucceeded /\ prev.current_params # <<>>

-----------------------------------------------------------------------------
(* C17: the free-list and the allocated indices *)

\* no element occurs twice
NoDuplicates(list) ==
    \A j, k \in 1..Len(list) : list[j] = list[k] => j = k

\* the last step executed ALLOC_HEAP var, size to its end with a name var
Allocated ==
    /\ Did("ALLOC_HEAP") /\ ~Faulted
    /\ IsStr(ExecutedInstr.operands[1])

\* the base address the last ALLOC_HEAP bound to its target
AllocatedBase == _get_operand_value(Cur, ExecutedInstr.operands[1])

\* C17: the free-list holds no index twice and only indices of the heap; an
\* index that is not free becomes free only by FREE_HEAP; the address an
\* allocation hands out was free (or lies in the part the heap grew by) and
\* is not free afterwards.
C17_FreeListPartition ==
    /\ NoDuplicates(free_heap_slots)
    /\ Elems(free_heap_slots) \subseteq 0..(Len(heap) - 1)
    /\ (last.op = "step" /\ ~Did("FREE_HEAP")) =>
           Elems(free_heap_slots) \subseteq
               Elems(prev.free_heap_slots) \cup (Len(prev.heap)..(Len(heap) - 1))
    /\ Allocated =>
           /\ IsInt(AllocatedBase)
           /\ AllocatedBase.i \notin Elems(free_heap_slots)
           /\ AllocatedBase.i \in
                  Elems(prev.free_heap_slots) \cup (Len(prev.heap)..(Len(heap) - 1))

\* an allocation after a slot was freed twice
C17_Witness ==
    /\ Allocated
    /\ \E k \in 1..prev.pc :
           /\ prev.program[k].opcode = "FREE_HEAP"
           /\ k > 1 /\ prev.program[k - 1].opcode = "FREE_HEAP"
           /\ prev.program[k].operands = prev.program[k - 1].operands

-----------------------------------------------------------------------------
(* C18: CALL with the wrong number of pending parameters *)

\* the last step executed CALL label, n, ret with n different from the
\* length of the buffer
CountMismatch ==
    /\ Did("CALL")
    /\ Len(ExecutedInstr.operands) = 3
    /\ IsInt(ExecutedInstr.operands[2])
    /\ ExecutedInstr.operands[2].i # Len(prev.current_params)

\* C18: CALL label, n, ret with a buffer whose length differs from n faults
\* with a parameter-count error: step returns false, running becomes false,
\* no frame is pushed, the program counter does not move and the buffer is
\* left as it was.
C18_CountMismatchFaults ==
    CountMismatch =>
        /\ Faulted
        /\ FaultText = "expected parameters"
        /\ last.ret = FALSE
        /\ ~running
        /\ call_stack = prev.call_stack
        /\ pc = prev.pc
        /\ current_params = prev.current_params

\* a mismatch with parameters pending
C18_Witness == CountMismatch /\ prev.current_params # <<>>

-----------------------------------------------------------------------------
(* C19: RETURN outside a call *)

\* the last step executed RETURN with no frame on the call stack
ReturnOutsideCall == Did("RETURN") /\ prev.call_stack = <<>>

\* C19: RETURN with an empty call stack faults (step returns false, running
\* is false) and changes neither the program counter nor the global scope,
\* with a value operand or without.
C19_ReturnOutsideCallFaults ==
    ReturnOutsideCall =>
        /\ Faulted
        /\ last.ret = FALSE
        /\ ~running
        /\ pc = prev.pc
        /\ global_memory = prev.global_memory

\* RETURN x outside a call, with x bound
C19_Witness ==
    /\ ReturnOutsideCall
    /\ ExecutedInstr.operands # <<>>
    /\ prev.global_memory # EmptyDict

-----------------------------------------------------------------------------
(* C20: the program counter after a successful instruction *)

\* the last step executed a jump that was taken
TakenJump ==
    /\ Executed /\ ~Faulted
    /\ \/ ExecutedInstr.opcode = "JUMP"
       \/ /\ ExecutedInstr.opcode = "JUMPT"
          /\ Truthy(_get_operand_value(prev, ExecutedInstr.operands[2]))
       \/ /\ ExecutedInstr.opcode = "JUMPF"
          /\ ~Truthy(_get_operand_value(prev, ExecutedInstr.operands[2]))

\* C20: a successfully executed instruction other than a taken jump, CALL
\* and RETURN increases the program counter by exactly one; a taken jump
\* sets it to the resolved target, its first operand.
C20_PcAdvances ==
    (Executed /\ ~Faulted) =>
        IF TakenJump THEN pc = ExecutedInstr.operands[1].i
        ELSE ExecutedInstr.opcode \notin {"CALL", "RETURN"} => pc = prev.pc + 1

\* a conditional jump that was not taken
C20_Witness ==
    /\ Executed /\ ~Faulted /\ ~TakenJump
    /\ ExecutedInstr.opcode \in {"JUMPT", "JUMPF"}

-----------------------------------------------------------------------------
(* C21: literal operands *)

\* the operand texts of a source line that holds an instruction
OperandPieces(line) ==
    LET operands_str == Strip(Tail(Strip(line)))
        pieces == IF operands_str = <<>> THEN <<>> ELSE SplitComma(operands_str, <<>>)
    IN  [k \in 1..Len(pieces) |-> Strip(pieces[k])]

\* the operand text is a literal: a boolean, a double-quoted string, an
\* integer or a float
IsLiteralPiece(piece) ==
    \/ IsTrueText(Text(piece)) \/ IsFalseText(Text(piece))
    \/ piece # <<>> /\ Head(piece) = "\"" /\ Last(piece) = "\""
    \/ IsIntLit(Text(piece))
    \/ Text(piece) \in DOMAIN FloatLits

\* the source line of the instruction the last step executed
ExecutedLine == tac_code_lines[ExecutedInstr.line_num + 1]

\* the last step executed ASSIGN x, <literal>
AssignedLiteral ==
    /\ Did("ASSIGN")
    /\ Len(ExecutedInstr.operands) = 2
    /\ IsStr(ExecutedInstr.operands[1])
    /\ IsLiteralPiece(OperandPieces(ExecutedLine)[2])

\* the scope a write goes to: the top frame's locals, or the globals
WriteScope == IF call_stack # <<>> THEN TopFrame(Cur).locals ELSE global_memory

\* C21: ASSIGN x, <literal> binds x to exactly the literal the Loader read,
\* for every kind of literal (integer, float, boolean, double-quoted
\* string) and whatever variables exist in the scopes.
C21_LiteralsReadUnchanged ==
    AssignedLiteral =>
        /\ ~Faulted
        /\ ExecutedInstr.operands[1] \in DOMAIN WriteScope
        /\ WriteScope[ExecutedInstr.operands[1]] = ExecutedInstr.operands[2]

-----------------------------------------------------------------------------
(* C22: reads of by-reference parameters *)

\* the last step executed ASSIGN t, ARGi inside a callee, ARGi one of the
\* arguments the frame was called with
ReadArgument ==
    /\ Did("ASSIGN")
    /\ Len(ExecutedInstr.operands) = 2
    /\ IsStr(ExecutedInstr.operands[1])
    /\ prev.call_stack # <<>>
    /\ ExecutedInstr.operands[2] \in DOMAIN TopFrame(prev).params

\* what the frame was called with for the argument read
PassedArgument == TopFrame(prev).params[ExecutedInstr.operands[2]]

\* the argument was passed with REF_PARAM: it is a pointer
PassedByReference ==
    IsTuple(PassedArgument) /\ Len(PassedArgument.e) = 2
    /\ PassedArgument.e[1] \in PointerKinds

\* C22: in a callee, reading ARGi yields the value stored at x's location
\* when the argument was passed with REF_PARAM x, and the passed value when
\* it was passed with PARAM.
C22_RefParamsReadThrough ==
    ReadArgument =>
        /\ ~Faulted
        /\ ExecutedInstr.operands[1] \in DOMAIN WriteScope
        /\ WriteScope[ExecutedInstr.operands[1]] =
               IF PassedByReference
               THEN _get_value_from_pointer(prev, PassedArgument)
               ELSE PassedArgument

-----------------------------------------------------------------------------
(* C23: the scope of a write *)

\* the opcodes whose handler ends by writing its first operand
WritingOpcodes ==
    {"ASSIGN", "CONST_ASSIGN", "UMINUS", "CONCAT", "STRLEN", "GETCHAR",
     "ALLOC_HEAP", "ADDR_OF", "DEREF_LOAD", "INDEX_LOAD"}
        \cup ArithmeticOpcodes

\* the last step executed a writing instruction to its end
Wrote ==
    /\ Executed
    /\ ExecutedInstr.opcode \in WritingOpcodes
    /\ ~Faulted

\* the variable the last step wrote
Written == ExecutedInstr.operands[1]

\* the last step wrote, inside a frame, a name that is also a global
WroteShadow ==
    Wrote /\ prev.call_stack # <<>> /\ Written \in DOMAIN prev.global_memory

\* C23: a write made while the call stack is non-empty binds the target in
\* the top frame's locals and changes nothing else in any scope, whether
\* or not a global of that name exists; a write made while the call stack
\* is empty binds the target in the global scope.
C23_WriteScoping ==
    Wrote =>
        IF prev.call_stack # <<>>
        THEN /\ global_memory = prev.global_memory
             /\ Written \in DOMAIN TopFrame(Cur).locals
             /\ call_stack =
                    [prev.call_stack EXCEPT ![Len(prev.call_stack)].locals =
                        DictSet(@, Written, TopFrame(Cur).locals[Written])]
        ELSE /\ call_stack = <<>>
             /\ Written \in DOMAIN global_memory
             /\ global_memory =
                    DictSet(prev.global_memory, Written, global_memory[Written])

\* a write inside a frame left a global of the same name with another value
C23_Witness ==
    /\ WroteShadow
    /\ TopFrame(Cur).locals[Written] # global_memory[Written]

-----------------------------------------------------------------------------
(* C24: local pointers are bound when they are used *)

\* the pointer the last step's DEREF_LOAD or DEREF_STORE went through
UsedPointer ==
    _get_operand_value(prev, ExecutedInstr.operands[
        IF ExecutedInstr.opcode = "DEREF_LOAD" THEN 2 ELSE 1])

\* the last step executed, without a fault, a DEREF_LOAD or DEREF_STORE
\* through a pointer of kind local
UsedLocalPointer ==
    /\ Executed
    /\ ExecutedInstr.opcode \in {"DEREF_LOAD", "DEREF_STORE"}
    /\ Len(ExecutedInstr.operands) = 2
    /\ ~Faulted
    /\ IsTuple(UsedPointer) /\ Len(UsedPointer.e) = 2
    /\ UsedPointer.e[1] = StrV("local")

\* the variable the pointer names
Pointee == UsedPointer.e[2]

\* the frames under the top one
LowerFrames(s) == SubSeq(s.call_stack, 1, Len(s.call_stack) - 1)

\* C24: a DEREF_LOAD through a local pointer binds its target to what the
\* frame on top at that step holds for the named variable (None if it holds
\* none), and a DEREF_STORE through one binds the named variable in that
\* frame's locals; the frames under it, where the address may have been
\* taken, are neither read nor written.
C24_LocalPointersLateBound ==
    UsedLocalPointer =>
        /\ prev.call_stack # <<>>
        /\ LowerFrames(Cur) = LowerFrames(prev)
        /\ global_memory = prev.global_memory
        /\ IF ExecutedInstr.opcode = "DEREF_LOAD"
           THEN TopFrame(Cur).locals =
                    DictSet(TopFrame(prev).locals, Written,
                            DictGet(TopFrame(prev).locals, Pointee))
           ELSE TopFrame(Cur).locals =
                    DictSet(TopFrame(prev).locals, Pointee,
                            _get_operand_value(prev, ExecutedInstr.operands[2]))

\* the frame under the top one holds the variable a local pointer names
TakenBelow ==
    /\ Len(prev.call_stack) >= 2
    /\ Pointee \in DOMAIN prev.call_stack[Len(prev.call_stack) - 1].locals

\* a local pointer taken in the caller was stored through in the callee, and
\* the caller's variable kept its value
C24_Witness ==
    /\ UsedLocalPointer /\ TakenBelow
    /\ ExecutedInstr.opcode = "DEREF_STORE"
    /\ TopFrame(Cur).locals[Pointee] #
           call_stack[Len(call_stack) - 1].locals[Pointee]

-----------------------------------------------------------------------------
(* C25: faults of DEREF_LOAD and DEREF_STORE *)

\* the last step executed a DEREF_LOAD or DEREF_STORE
Dereferenced ==
    /\ Executed
    /\ ExecutedInstr.opcode \in {"DEREF_LOAD", "DEREF_STORE"}
    /\ Len(ExecutedInstr.operands) = 2

\* the value is a pair whose first element is this kind
IsPointerOf(kind, pointer) ==
    IsTuple(pointer) /\ Len(pointer.e) = 2 /\ pointer.e[1] = StrV(kind)

\* the value is no pair of a kind and a location
Malformed(pointer) ==
    ~IsTuple(pointer) \/ Len(pointer.e) # 2 \/ pointer.e[1] \notin PointerKinds

\* the value is a heap pointer and its index is not one of s's heap
HeapOutOfRange(s, pointer) ==
    IsPointerOf("heap", pointer) /\ ~InHeap(s, pointer.e[2])

\* the value is a local pointer and s has no frame
LocalNoFrame(s, pointer) ==
    IsPointerOf("local", pointer) /\ s.call_stack = <<>>

\* the last step was a fault that changed no variable and no heap slot
FaultedClean ==
    /\ Faulted
    /\ last.ret = FALSE
    /\ ~running
    /\ Scopes(Cur) = Scopes(prev)
    /\ heap = prev.heap
    /\ free_heap_slots = prev.free_heap_slots

-----------------------------------------------------------------------------
(* C26: ALLOC_HEAP with an invalid size *)

\* the value the size operand of the last step's ALLOC_HEAP had
SizeValue == _get_operand_value(prev, ExecutedInstr.operands[2])

\* the value is an integer above zero; a boolean is a value of another kind
IsPositiveInteger(v) == v.t = "int" /\ v.i > 0

\* the last step executed ALLOC_HEAP with a size that is no positive integer
BadSize ==
    /\ Did("ALLOC_HEAP")
    /\ Len(ExecutedInstr.operands) = 2
    /\ ~IsExc(SizeValue)
    /\ ~IsPositiveInteger(SizeValue)

\* C26: ALLOC_HEAP with a size that is anything but a positive integer
\* (zero, negative, None, a boolean, a float, a string, a pointer) faults
\* with the invalid-size error and leaves the heap, the free-list and
\* every variable, its target included, as they were.
C26_BadSizeFaults ==
    BadSize =>
        /\ Faulted
        /\ FaultText = "ALLOC_HEAP size must be a positive integer"
        /\ last.ret = FALSE /\ ~running
        /\ heap = prev.heap
        /\ free_heap_slots = prev.free_heap_slots
        /\ Scopes(Cur) = Scopes(prev)

-----------------------------------------------------------------------------
(* C27: the block ALLOC_HEAP reserves *)

\* the indices the last step took: free before it, or in the part the heap
\* grew by, and not free after it
Reserved ==
    (Elems(prev.free_heap_slots) \cup (Len(prev.heap)..(Len(heap) - 1)))
        \ Elems(free_heap_slots)

\* C27: ALLOC_HEAP t, n takes exactly n indices out of the free-list, binds
\* t to the first of them, b, and the indices taken are b, b+1, ..., b+n-1,
\* each holding None afterwards, whatever was allocated and freed before.
C27_BlockIsContiguous ==
    Allocated =>
        /\ IsInt(AllocatedBase)
        /\ Reserved = AllocatedBase.i..(AllocatedBase.i + IntVal(SizeValue) - 1)
        /\ \A a \in Reserved : heap[a + 1] = NoneV

-----------------------------------------------------------------------------
(* C28: the order of the free-list *)

\* what the last step's allocation could take from, in order: the free-list
\* before it, then the indices the heap grew by
Available ==
    prev.free_heap_slots \o Range(Len(prev.heap), Len(heap))

\* the value the operand of the last step's FREE_HEAP had
FreedValue == _get_operand_value(prev, ExecutedInstr.operands[1])

\* the last step executed FREE_HEAP on an index of the heap that was not free
FreedAllocated ==
    /\ Did("FREE_HEAP")
    /\ ExecutedInstr.operands # <<>>
    /\ InHeap(prev, FreedValue)
    /\ ~InList(IntVal(FreedValue), prev.free_heap_slots)

\* C28: an allocation of n slots takes the n indices at the head of the
\* free-list, in order, and leaves the rest in order; FREE_HEAP of an
\* allocated index puts it at the tail, behind every index that was free.
\* So a freed index is handed out only after those that were ahead of it.
C28_FreeListIsFifo ==
    /\ Allocated =>
           /\ AllocatedBase = IntV(Available[1])
           /\ free_heap_slots =
                  SubSeq(Available, IntVal(SizeValue) + 1, Len(Available))
    /\ FreedAllocated =>
           free_heap_slots = Append(prev.free_heap_slots, IntVal(FreedValue))

\* an allocation took the head of a free-list that held, behind the head, a
\* lower index freed before
C28_Witness ==
    /\ Allocated
    /\ prev.free_heap_slots # <<>>
    /\ prev.free_heap_slots[Len(prev.free_heap_slots)] < Head(prev.free_heap_slots)
    /\ AllocatedBase = IntV(Head(prev.free_heap_slots))
    /\ IntVal(SizeValue) < Len(prev.free_heap_slots)

-----------------------------------------------------------------------------
(* C29: freeing twice *)

\* the last step executed FREE_HEAP on an index of the heap
FreedInRange ==
    /\ Did("FREE_HEAP")
    /\ ExecutedInstr.operands # <<>>
    /\ InHeap(prev, FreedValue)

\* the heap and the free-list of s
Store(s) == [heap |-> s.heap, free_heap_slots |-> s.free_heap_slots]

\* C29: FREE_HEAP of an index of the heap sets its slot to None, leaves the
\* other slots alone and leaves the index in the free-list: appended when it
\* was not free, and with the free-list as it was, contents and order,
\* when it was free already; freeing it once more changes neither the
\* heap nor the free-list.
C29_FreeIsIdempotent ==
    FreedInRange =>
        /\ ~Faulted
        /\ heap = [prev.heap EXCEPT ![IntVal(FreedValue) + 1] = NoneV]
        /\ free_heap_slots =
               IF InList(IntVal(FreedValue), prev.free_heap_slots)
               THEN prev.free_heap_slots
               ELSE Append(prev.free_heap_slots, IntVal(FreedValue))
        /\ Store(_free_heap_slot(Cur, FreedValue)) = Store(Cur)
        /\ Store(FreeHeap(Cur, ExecutedInstr).s) = Store(Cur)

\* the index a FREE_HEAP had put at the tail of the free-list was freed
\* again, and the heap and the free-list stayed as they were
C29_Witness ==
    /\ FreedInRange
    /\ prev.free_heap_slots # <<>>
    /\ prev.free_heap_slots[Len(prev.free_heap_slots)] = IntVal(FreedValue)
    /\ IntVal(FreedValue) < Head(prev.free_heap_slots)
    /\ Store(Cur) = Store(prev)

-----------------------------------------------------------------------------
(* C30: FREE_HEAP of an invalid address *)

\* the value is an integer that is an index of s's heap; a boolean is a
\* value of another kind
IsHeapIndex(s, v) == v.t = "int" /\ 0 <= v.i /\ v.i < Len(s.heap)

\* the last step executed FREE_HEAP on a value that is no integer, or an
\* integer outside the heap
FreedInvalid ==
    /\ Did("FREE_HEAP")
    /\ ExecutedInstr.operands # <<>>
    /\ ~IsExc(FreedValue)
    /\ ~IsHeapIndex(prev, FreedValue)

\* C30: FREE_HEAP of a value that is no integer, or of an integer outside
\* [0, heap length), is no fault: the step returns true, running stays
\* true, the program counter advances by one, one warning is appended to
\* the console, and the heap and the free-list stay as they were.
C30_InvalidFreeWarns ==
    FreedInvalid =>
        /\ ~Faulted
        /\ last.ret = TRUE /\ running
        /\ pc = prev.pc + 1
        /\ Len(console) = Len(prev.console) + 1
        /\ console[Len(console)].kind = "warning"
        /\ SubSeq(console, 1, Len(prev.console)) = prev.console
        /\ heap = prev.heap
        /\ free_heap_slots = prev.free_heap_slots

-----------------------------------------------------------------------------
(* C31: the length of the heap *)

\* the last step executed ALLOC_HEAP with a size it accepts
AllocRan ==
    /\ Did("ALLOC_HEAP")
    /\ Len(ExecutedInstr.operands) = 2
    /\ ~IsExc(SizeValue)
    /\ IsInt(SizeValue) /\ IntVal(SizeValue) > 0

\* how many times an allocation of n slots finds a free-list of the given
\* length empty
Batches(n, free) ==
    IF n <= free THEN 0 ELSE (n - free + HeapGrow - 1) \div HeapGrow

\* the slots the last step's allocation took after the free-list it found
\* ran out
TakenFromGrowth == IntVal(SizeValue) - Len(prev.free_heap_slots)

\* C31: no step makes the heap shorter.  Its length changes only in an
\* ALLOC_HEAP that needs more slots than the free-list holds, and then by
\* HeapGrow slots for each time the free-list was found empty; the new
\* indices go on the free-list in increasing order, so what is left of
\* them afterwards is an increasing run up to the heap's end.  Applied to
\* a state with an empty free-list, _allocate_heap_slot adds exactly
\* HeapGrow slots.
C31_HeapOnlyGrows ==
    /\ last.op = "step" =>
           /\ Len(heap) >= Len(prev.heap)
           /\ SubSeq(heap, 1, Len(prev.heap)) # prev.heap =>
                  Did("ALLOC_HEAP") \/ Did("FREE_HEAP") \/ Did("DEREF_STORE")
                  \/ Did("INDEX_STORE")
           /\ Len(heap) # Len(prev.heap) =>
                  AllocRan /\ TakenFromGrowth > 0
    /\ AllocRan =>
           /\ Len(heap) = Len(prev.heap)
                  + HeapGrow * Batches(IntVal(SizeValue), Len(prev.free_heap_slots))
           /\ TakenFromGrowth > 0 =>
                  free_heap_slots =
                      Range(Len(prev.heap) + TakenFromGrowth, Len(heap))
    /\ LET got == _allocate_heap_slot(Cur)
       IN  IF free_heap_slots = <<>>
           THEN /\ got.s.heap = heap \o NoneList(HeapGrow)
                /\ got.addr = Len(heap)
                /\ got.s.free_heap_slots = Range(Len(heap) + 1, Len(heap) + HeapGrow)
           ELSE got.s.heap = heap

\* an allocation found the free-list empty after taking what it held, and
\* the heap grew by one batch
C31_Witness ==
    /\ AllocRan /\ ~Faulted
    /\ prev.free_heap_slots # <<>>
    /\ TakenFromGrowth > 0
    /\ Len(heap) = Len(prev.heap) + HeapGrow

-----------------------------------------------------------------------------
(* C32: PARAM passes the value it reads *)

\* the last step executed PARAM or REF_PARAM to its end
Passed ==
    /\ Executed
    /\ ExecutedInstr.opcode \in {"PARAM", "REF_PARAM"}
    /\ ~Faulted

\* what the last step's PARAM or REF_PARAM had to pass: the value its
\* operand had before the step, or the address of the variable it names
PassedNow ==
    IF ExecutedInstr.opcode = "PARAM"
    THEN _get_operand_value(prev, ExecutedInstr.operands[1])
    ELSE _get_variable_address(prev, ExecutedInstr.operands[1])

\* C32: PARAM appends to the pending-parameter buffer the value its operand
\* has when it executes; no later step but a CALL changes the entries of
\* the buffer, whatever it writes; and a CALL binds the entries, in the
\* order they were appended, to ARG0, ARG1, ... of the callee, in its
\* params and in its locals.
C32_ParamIsByValue ==
    /\ Passed => current_params = Append(prev.current_params, PassedNow)
    /\ (last.op = "step" /\ ~Passed /\ ~Did("CALL")) =>
           current_params = prev.current_params
    /\ CallSucceeded =>
           /\ DOMAIN TopFrame(Cur).params =
                  {ArgName(k - 1) : k \in 1..Len(prev.current_params)}
           /\ \A k \in 1..Len(prev.current_params) :
                  /\ TopFrame(Cur).params[ArgName(k - 1)] = prev.current_params[k]
                  /\ _get_operand_value(Cur, ArgName(k - 1)) = prev.current_params[k]

\* the callee was entered with the values x had at the two PARAMs, 3 and
\* 4, while x is 5
C32_Witness ==
    /\ CallSucceeded
    /\ Len(prev.current_params) = 2
    /\ _get_operand_value(Cur, StrV("ARG0")) = IntV(3)
    /\ _get_operand_value(Cur, StrV("ARG1")) = IntV(4)
    /\ StrV("x") \in DOMAIN global_memory /\ global_memory[StrV("x")] = IntV(5)

-----------------------------------------------------------------------------
(* C33: the engine after a failed load *)

\* the last load failed, and the engine has only been stepped since
AfterFailedLoad ==
    /\ last.op \in {"load", "step"}
    /\ load_program(tac_code_lines).err # ""

\* C33: from a load that failed, with a syntax error or an undefined label,
\* until the next load, whatever state the load was made over: running and
\* halted are false, pc is 0, the global scope, the call stack and the
\* pending-parameter buffer are empty, and every step returns false and
\* changes nothing.
C33_FailedLoadNotLoaded ==
    AfterFailedLoad =>
        /\ last.op = "load" => last.err # ""
        /\ ~running /\ ~halted
        /\ pc = 0
        /\ global_memory = EmptyDict
        /\ call_stack = <<>>
        /\ current_params = <<>>
        /\ last.op = "step" => last.ret = FALSE /\ Cur = prev
        /\ step(Cur) = [s |-> Cur, ret |-> FALSE]

\* a load failed over an engine that was running, with globals, a frame on
\* the stack and a heap slot allocated
C33_Witness ==
    /\ AfterFailedLoad
    /\ last.op = "load"
    /\ last.over.stepped /\ last.over.running
    /\ last.over.globals /\ last.over.frames /\ last.over.allocated

-----------------------------------------------------------------------------
(* C34: commas inside quotes *)

\* the items of an operand list: the pieces between the commas that are
\* outside double quotes, in order
RECURSIVE TopLevelItems(_, _, _)
TopLevelItems(atoms, piece, quoted) ==
    IF atoms = <<>> THEN <<piece>>
    ELSE IF Head(atoms) = "," /\ ~quoted
    THEN <<piece>> \o TopLevelItems(Tail(atoms), <<>>, FALSE)
    ELSE TopLevelItems(Tail(atoms), Append(piece, Head(atoms)),
                       IF Head(atoms) = "\"" THEN ~quoted ELSE quoted)

\* the items of the operand list of a source line that holds an instruction
ItemsOf(line) ==
    LET operands_str == Strip(Tail(Strip(line)))
        items == IF operands_str = <<>> THEN <<>>
                 ELSE TopLevelItems(operands_str, <<>>, FALSE)
    IN  [k \in 1..Len(items) |-> Strip(items[k])]

\* the item is a double-quoted string
IsQuoted(item) ==
    Len(item) >= 2 /\ Head(item) = "\"" /\ Last(item) = "\""

\* C34: every instruction of the installed program has one operand for each
\* item of its line's operand list, a comma inside double quotes being
\* part of its item; the operand of a quoted item is the text between the
\* quotes.
C34_SplitRespectsQuotes ==
    (last.op # "init" /\ load_program(tac_code_lines).err = "") =>
        \A k \in 1..Len(program) :
            LET items == ItemsOf(tac_code_lines[program[k].line_num + 1])
            IN  /\ Len(program[k].operands) = Len(items)
                /\ \A j \in 1..Len(items) :
                       IsQuoted(items[j]) =>
                           program[k].operands[j] =
                               StrV(Text(SubSeq(items[j], 2, Len(items[j]) - 1)))

-----------------------------------------------------------------------------
(* C35: the heap map of the state file *)

\* the heap addresses with an entry in the heap object that an export of
\* the state writes
Exported ==
    { a \in 0..(Len(heap) - 1) : KeysOfAddr(export_vm_state(Cur).heap, a) # {} }

\* C35: in every state of a loaded engine, a heap index has an entry in the
\* heap map an export writes if and only if it is not in the free-list;
\* and after an import of the engine's own export the indices in the
\* free-list are those that were in it before.
C35_ExportOmitsFreeSlots ==
    tac_code_lines # <<>> =>
        /\ Exported = (0..(Len(heap) - 1)) \ Elems(free_heap_slots)
        /\ ImportedOwnExport =>
               Elems(free_heap_slots) = Elems(prev.free_heap_slots)

-----------------------------------------------------------------------------
(* C36: what a faulting step changes *)

\* C36: a step that faults changes nothing but running and the console:
\* pc, the global scope, the call stack, the heap, the free-list and the
\* pending-parameter buffer are as they were before it, for every opcode
\* and every fault, a CALL of a label that is not in the label table
\* included.
C36_FaultChangesNothing ==
    Faulted =>
        /\ pc = prev.pc
        /\ global_memory = prev.global_memory
        /\ call_stack = prev.call_stack
        /\ heap = prev.heap
        /\ free_heap_slots = prev.free_heap_slots
        /\ current_params = prev.current_params

-----------------------------------------------------------------------------
(* C37: the free slots hold no value *)

\* C37: free slots hold no value: in every reachable state every heap
\* index that is in the free-list holds None, whatever ALLOC_HEAP,
\* FREE_HEAP, DEREF_STORE and INDEX_STORE instructions were executed; a
\* store never places a value in a slot that is currently free.
C37_FreeSlotsHoldNothing ==
    \A addr \in Elems(free_heap_slots) : heap[addr + 1] = NoneV

-----------------------------------------------------------------------------
(* C38: the range of the program counter *)

\* the opcodes that set pc to something other than pc + 1
Transfers == {"JUMP", "JUMPT", "JUMPF", "CALL", "RETURN"}

\* the last step was made with pc at the number of instructions
SteppedAtEnd == last.op = "step" /\ prev.pc = Len(prev.program)

\* C38: in every state reached by load and step, 0 <= pc <= the number of
\* instructions, and every return address in a frame of the call stack is
\* in 1..the number of instructions; an executed instruction leaves pc at
\* the number of instructions only if it was the last instruction or a
\* jump, CALL or RETURN; and a step made with pc there executes nothing:
\* it returns False, leaves the machine not running, logs no error and
\* moves neither pc nor the halted flag.
C38_PcInRange ==
    /\ pc \in 0..Len(program)
    /\ \A k \in 1..Len(call_stack) :
           call_stack[k].return_address \in 1..Len(program)
    /\ (Executed /\ pc = Len(program)) =>
           \/ prev.pc = Len(program) - 1
           \/ ExecutedInstr.opcode \in Transfers
    /\ SteppedAtEnd =>
           /\ last.ret = FALSE /\ ~running
           /\ pc = prev.pc /\ halted = prev.halted
           /\ console = prev.console

\* a RETURN took pc to the return address of a CALL that was the last
\* instruction: the number of instructions
C38_Witness ==
    /\ Did("RETURN") /\ ~Faulted
    /\ prev.call_stack # <<>>
    /\ prev.call_stack[Len(prev.call_stack)].return_address = Len(program)
    /\ pc = Len(program) /\ running

-----------------------------------------------------------------------------
(* C39: the frames below the top *)

\* a frame without its locals: func_name, return address, return variable
\* and params
Header(frame) == [frame EXCEPT !.locals = <<>>]

\* the depth of the call stack after the last step, less the depth before
DepthChange == Len(call_stack) - Len(prev.call_stack)

\* C39: no step modifies a frame below the top frame, but for RETURN's
\* write of the return variable into the locals of the caller's frame
\* once the callee's is popped; the params, return address and return
\* variable of a frame are never modified after the CALL that made it;
\* and the depth of the call stack changes only by +1 on a successful
\* CALL and by -1 on a successful RETURN.
C39_LowerFramesFrozen ==
    last.op = "step" =>
        /\ \A k \in 1..Len(prev.call_stack) :
               k <= Len(call_stack) =>
                  /\ Header(call_stack[k]) = Header(prev.call_stack[k])
                  /\ \/ call_stack[k].locals = prev.call_stack[k].locals
                     \/ k = Len(prev.call_stack)
                     \/ Did("RETURN") /\ k = Len(prev.call_stack) - 1
        /\ DepthChange = IF CallSucceeded THEN 1
                         ELSE IF Did("RETURN") /\ ~Faulted THEN -1
                         ELSE 0

-----------------------------------------------------------------------------
(* C40: what FREE_HEAP releases *)

\* the indices the last step released: taken before it, free after it
Released ==
    { a \in Elems(free_heap_slots) :
        a < Len(prev.heap) /\ ~InList(a, prev.free_heap_slots) }

====
